---- MODULE Spec2Model ----
(***************************************************************************)
(* Edge/cloud resource allocation for IoT devices: the capacity model      *)
(* (Device, Server, server_supply), the pre-calculation pipeline, the      *)
(* Random and Greedy heuristics, Simulated Annealing and the metrics       *)
(* aggregator, as a state machine.                                         *)
(*                                                                         *)
(* Units.  The program computes in doubles; the model computes in          *)
(* integers over fixed units chosen so that every program constant is an   *)
(* exact integer:                                                          *)
(*   distance      10 m           (coverage radii 20 km .. 0.32 km)        *)
(*   bandwidth     0.0008 Mbps    (data rates 0.0024 .. 10000 Mbps)        *)
(*   task size     0.0008 Mb                                               *)
(*   time          0.01 ms                                                 *)
(*   memory, storage  1e-6 of the data files' unit                         *)
(*   cost          1e-5           (activation costs 0.00085 ..)            *)
(*   temperature   1e-3           (the annealing stops at T <= 1e-3)       *)
(* Divisions truncate.                                                     *)
(***************************************************************************)
EXTENDS Integers, Sequences, FiniteSets, TLC

(***************************************************************************)
(* Bounds of the model.                                                    *)
(***************************************************************************)
\* the largest device count asked of pre_calculation
MaxDevices == 3
\* the initial annealing temperature handed to MetaHeuristics::bootup
MaxTemp == 4
\* the initial temperature of the runs from a random initial solution
RandomTemp == 2
\* the number of independent trials (loopTest) of MetaHeuristics::bootup
MaxLoopTest == 2

(***************************************************************************)
(* Program constants.                                                      *)
(***************************************************************************)
\* DATA_RATE_EC_TO_CC_MBPS = 100000.0 Mbps, in units of 0.0008 Mbps
DATA_RATE_EC_TO_CC == 125000000
\* SPEED_OF_LIGHT = 299792.458 km/s, in units of 10 m per ms
SPEED_OF_LIGHT == 29979
\* INTER_DC_LATENCY_MS = 111.86 ms, in units of 0.01 ms
INTER_DC_LATENCY == 11186
\* utils::EARTH_RADIUS_KM = 6371.0088 km, in units of 10 m
EARTH_RADIUS == 637101
\* at most 5 candidates are tried by one generateNeighbor call
MaxTries == 5
\* the inner loop of simulatedAnnealing: for (i = 0; i < 10; ++i)
InnerLoop == 10
\* the annealing runs while T > 1e-3 (one unit of temperature)
MinTemp == 1

Abs(x) == IF x < 0 THEN -x ELSE x

RECURSIVE SumOver(_, _)
\* the sum of f[x] over the finite set S
SumOver(S, f) ==
    IF S = {} THEN 0
    ELSE LET x == CHOOSE y \in S : TRUE IN f[x] + SumOver(S \ {x}, f)

Range(s) == {s[k] : k \in DOMAIN s}

RECURSIVE Orders(_)
\* all sequences that hold every element of the finite set S once
Orders(S) ==
    IF S = {} THEN {<<>>}
    ELSE UNION {{<<x>> \o p : p \in Orders(S \ {x})} : x \in S}

\* all orderings of the elements of the sequence s
Permutations_(s) ==
    {[k \in DOMAIN s |-> s[o[k]]] : o \in Orders(DOMAIN s)}

(***************************************************************************)
(* structs.h: server_covering, server_supply, Device, Server.              *)
(***************************************************************************)
\* server_covering(): the default candidate link, id 0
NoLink ==
    [id |-> 0, id_routing |-> 0, distance |-> 0, connectionTime |-> 0,
     processingTime |-> 0, responseTime |-> 0]

\* server_supply with its member initialisers
EmptySupply ==
    [pcnD |-> 0, cndD |-> 0, pccD |-> 0, memD |-> 0, stoD |-> 0, bwD |-> 0,
     devices_served |-> {}]

\* Device(): the placeholder at index 0 of the devices vector
PlaceholderDevice ==
    [id |-> 0, pcn |-> 0, svc |-> 0, pos |-> 0, cnd |-> 0, pcc |-> 0,
     mem |-> 0, sto |-> 0, s_d |-> 0, bw |-> 0, covered |-> FALSE,
     served |-> FALSE, server |-> NoLink, servers |-> <<>>]

\* Server(): the placeholder at index 0 of the servers vector
PlaceholderServer ==
    [id |-> 0, pcn |-> 0, type |-> " ", pos |-> 0, csc |-> 0,
     pcc_per_core |-> 0, pcc_total |-> 0, mem |-> 0, sto |-> 0, t_p |-> 0,
     bw |-> 0, on |-> FALSE, supply |-> EmptySupply]

\* Device(id, lat, lon, cnd, pcc, pcn, mem, sto, s_d, svc)
NewDevice(id, pos, cnd, pcc, pcn, mem, sto, s_d, svc) ==
    [PlaceholderDevice EXCEPT !.id = id, !.pos = pos, !.cnd = cnd,
        !.pcc = pcc, !.pcn = pcn, !.mem = mem, !.sto = sto, !.s_d = s_d,
        !.svc = svc]

\* Server(id, lat, lon, csc, pcc, pcn, mem, sto, t_p, type)
NewServer(id, pos, csc, pcc, pcn, mem, sto, t_p, type) ==
    [PlaceholderServer EXCEPT !.id = id, !.pos = pos, !.csc = csc,
        !.pcc_per_core = pcc, !.pcn = pcn, !.pcc_total = pcc * pcn,
        !.mem = mem, !.sto = sto, !.t_p = t_p, !.type = type]

\* a mutant of canServe: the memory dimension is not checked
canServe_NoMem(server, device) ==
    /\ server.supply.pccD + device.pcc <= server.pcc_total
    /\ server.supply.pcnD + device.pcn <= server.pcn
    /\ server.supply.stoD + device.sto <= server.sto
    /\ server.supply.bwD + device.bw <= server.bw

\* Server::canServe
canServe(server, device) ==
    /\ server.supply.pccD + device.pcc <= server.pcc_total
    /\ server.supply.pcnD + device.pcn <= server.pcn
    /\ server.supply.memD + device.mem <= server.mem
    /\ server.supply.stoD + device.sto <= server.sto
    /\ server.supply.bwD + device.bw <= server.bw

\* Server::addServed: its return value
addServedOk(server, device) == device.id \notin server.supply.devices_served

\* a mutant of addServed: the demand is added whether or not the id was
\* already in the served set
addServedServer_Unguarded(server, device) ==
    [server EXCEPT
        !.on = TRUE,
        !.supply = [devices_served |-> @.devices_served \cup {device.id},
                    cndD |-> @.cndD + device.cnd,
                    pccD |-> @.pccD + device.pcc,
                    pcnD |-> @.pcnD + device.pcn,
                    memD |-> @.memD + device.mem,
                    stoD |-> @.stoD + device.sto,
                    bwD |-> @.bwD + device.bw]]

\* a mutant of addServed: the bandwidth demand is not accumulated
addServedServer_NoBw(server, device) ==
    IF ~addServedOk(server, device) THEN server
    ELSE [server EXCEPT
            !.on = TRUE,
            !.supply = [devices_served |-> @.devices_served \cup {device.id},
                        cndD |-> @.cndD + device.cnd,
                        pccD |-> @.pccD + device.pcc,
                        pcnD |-> @.pcnD + device.pcn,
                        memD |-> @.memD + device.mem,
                        stoD |-> @.stoD + device.sto,
                        bwD |-> @.bwD]]

\* a mutant of addServed: the server is not marked active
addServedServer_NoOn(server, device) ==
    IF ~addServedOk(server, device) THEN server
    ELSE [server EXCEPT
            !.supply = [devices_served |-> @.devices_served \cup {device.id},
                        cndD |-> @.cndD + device.cnd,
                        pccD |-> @.pccD + device.pcc,
                        pcnD |-> @.pcnD + device.pcn,
                        memD |-> @.memD + device.mem,
                        stoD |-> @.stoD + device.sto,
                        bwD |-> @.bwD + device.bw]]

\* Server::addServed: the server afterwards
addServedServer(server, device) ==
    IF ~addServedOk(server, device) THEN server
    ELSE [server EXCEPT
            !.on = TRUE,
            !.supply = [devices_served |-> @.devices_served \cup {device.id},
                        cndD |-> @.cndD + device.cnd,
                        pccD |-> @.pccD + device.pcc,
                        pcnD |-> @.pcnD + device.pcn,
                        memD |-> @.memD + device.mem,
                        stoD |-> @.stoD + device.sto,
                        bwD |-> @.bwD + device.bw]]

\* Server::addServed: the device afterwards
addServedDevice(server, device) ==
    IF ~addServedOk(server, device) THEN device
    ELSE [device EXCEPT !.served = TRUE]

\* Server::rmvServed: its return value
rmvServedOk(server, device) == device.id \in server.supply.devices_served

\* a mutant of rmvServed: the server is switched off by every release
rmvServedServer_AlwaysOff(server, device) ==
    IF ~rmvServedOk(server, device) THEN server
    ELSE [server EXCEPT
            !.on = FALSE,
            !.supply = [devices_served |-> @.devices_served \ {device.id},
                        cndD |-> @.cndD - device.cnd,
                        pccD |-> @.pccD - device.pcc,
                        pcnD |-> @.pcnD - device.pcn,
                        memD |-> @.memD - device.mem,
                        stoD |-> @.stoD - device.sto,
                        bwD |-> @.bwD - device.bw]]

\* a mutant of rmvServed: the memory demand is not given back
rmvServedServer_KeepMem(server, device) ==
    IF ~rmvServedOk(server, device) THEN server
    ELSE LET left == server.supply.devices_served \ {device.id} IN
         [server EXCEPT
            !.on = IF left = {} THEN FALSE ELSE @,
            !.supply = [devices_served |-> left,
                        cndD |-> @.cndD - device.cnd,
                        pccD |-> @.pccD - device.pcc,
                        pcnD |-> @.pcnD - device.pcn,
                        memD |-> @.memD,
                        stoD |-> @.stoD - device.sto,
                        bwD |-> @.bwD - device.bw]]

\* Server::rmvServed: the server afterwards
rmvServedServer(server, device) ==
    IF ~rmvServedOk(server, device) THEN server
    ELSE LET left == server.supply.devices_served \ {device.id} IN
         [server EXCEPT
            !.on = IF left = {} THEN FALSE ELSE @,
            !.supply = [devices_served |-> left,
                        cndD |-> @.cndD - device.cnd,
                        pccD |-> @.pccD - device.pcc,
                        pcnD |-> @.pcnD - device.pcn,
                        memD |-> @.memD - device.mem,
                        stoD |-> @.stoD - device.sto,
                        bwD |-> @.bwD - device.bw]]

\* Server::rmvServed: the device afterwards
rmvServedDevice(server, device) ==
    IF ~rmvServedOk(server, device) THEN device
    ELSE [device EXCEPT !.served = FALSE]

(***************************************************************************)
(* The data sets the loaders read.  Positions lie on a line (10 m units);  *)
(* a device's demand is that of the service it was given.                  *)
(***************************************************************************)
\* the device data sets: which service of Services.txt each row carries
Datasets == {"light", "heavy", "mixed", "mixed2"}

\* devicesData: the service given to row i
ServiceOf(dataset, i) ==
    CASE dataset = "light" -> 1
      [] dataset = "heavy" -> 2
      [] dataset = "mixed" -> IF i % 2 = 1 THEN 1 ELSE 2
      [] OTHER -> IF i % 2 = 1 THEN 2 ELSE 1

\* one row of Devices_{length}.txt carrying service svc
DeviceRow(i, svc) ==
    LET pos == CASE i % 3 = 1 -> 240
                 [] i % 3 = 2 -> -290
                 [] OTHER -> 850
    IN  IF svc = 1
        THEN NewDevice(i, pos, 330000, 12, 1, 2000000, 5000000, 1250, 1)
        ELSE NewDevice(i, pos, 550000, 30, 2, 4000000, 20000000, 2500, 2)

\* one row of EC_{length}.txt: the raffle profiles 1 and 2 of ecData
ECRow(j) ==
    IF j % 2 = 1
    THEN NewServer(j, (j - 1) * 540, 97, 23, 4, 5000000, 30000000, 5, "E")
    ELSE NewServer(j, (j - 1) * 540, 85, 16, 2, 4000000, 30000000, 8, "E")

\* one row of CC_{length}.txt
CCRow(k) ==
    NewServer(k, 700000 + k, 500, 30, 8, 8000000, 30000000, 3, "C")

\* the size of a vector modelled as a function on 0 .. n-1
Size(vec) == Cardinality(DOMAIN vec)

\* an empty std::vector
EmptyVec == [x \in {} |-> 0]

\* the data sets with data errors: "empty" has no device rows at all (the
\* file is missing or holds the header alone); in "lastbad" the last device
\* row does not parse; in "nodevices" no device row parses; in "noservers"
\* no row of the two server files parses
DataErrorSets == {"empty", "lastbad", "nodevices", "noservers"}

\* loadDevices: the rows the try block parses (std::stoi / std::stod throw
\* on the others, which the catch reports and skips); the rows that do not
\* parse are the last ones of the file
ParsedDevices(length, dataset) ==
    CASE dataset = "lastbad" -> length - 1
      [] dataset = "nodevices" -> 0
      [] OTHER -> length

\* loadDevices: nothing when strDevices.size() <= 1; else the placeholder,
\* then one Device per row that parses
loadDevices(length, dataset) ==
    IF dataset = "empty" THEN EmptyVec
    ELSE [i \in 0 .. ParsedDevices(length, dataset) |->
            IF i = 0 THEN PlaceholderDevice
            ELSE DeviceRow(i, ServiceOf(dataset, i))]

\* loadServers: the placeholder, the edge rows, then the cloud rows; a row
\* that does not parse is reported and skipped
loadServers(ecLength, ccLength, dataset) ==
    IF dataset = "noservers" THEN [j \in {0} |-> PlaceholderServer]
    ELSE [j \in 0 .. ecLength + ccLength |->
            IF j = 0 THEN PlaceholderServer
            ELSE IF j <= ecLength THEN ECRow(j)
            ELSE CCRow(j - ecLength)]

(***************************************************************************)
(* Metrics (structs.h) and the pre-calculation pipeline.  The wall-clock   *)
(* field execution_time_sec is not modelled.                               *)
(***************************************************************************)
ZeroOutputs ==
    [devices_covered_count |-> 0, devices_served_count |-> 0,
     devices_served_ec_count |-> 0, devices_served_cc_count |-> 0,
     servers_used_count |-> 0, servers_used_ec_count |-> 0,
     servers_used_cc_count |-> 0, cost_of_servers_used |-> 0,
     cost_of_non_coverage |-> 0, cost_of_non_service |-> 0,
     total_cost |-> 0, average_response_time |-> 0]

\* Metrics(simulation, algorithm, d, s_ec, s_cc, t)
NewMetrics(d, s_ec, s_cc, t) ==
    [inputs |-> [devices |-> d, servers_ec |-> s_ec, servers_cc |-> s_cc,
                 tech |-> t],
     outputs |-> ZeroOutputs]

\* utils::calculateDistance, on the line
calculateDistance(a, b) == Abs(a.pos - b.pos)

\* techParams: {radius, data rate}; {-1, -1} for an unknown id
techParams(tech) ==
    CASE tech = 1 -> [radius |-> 2000, rate |-> 3]
      [] tech = 2 -> [radius |-> 1000, rate |-> 80]
      [] tech = 3 -> [radius |-> 500, rate |-> 2500]
      [] tech = 4 -> [radius |-> 300, rate |-> 125000]
      [] tech = 5 -> [radius |-> 60, rate |-> 1250000]
      [] tech = 6 -> [radius |-> 32, rate |-> 12500000]
      [] OTHER -> [radius |-> -1, rate |-> -1]

\* bandwidth: every device but the placeholder gets the data rate
bandwidthDevices(devices, dataRate) ==
    [i \in DOMAIN devices |->
        IF i >= 1 THEN [devices[i] EXCEPT !.bw = dataRate] ELSE devices[i]]

\* bandwidth: every server but the placeholder gets the backbone rate
bandwidthServers(servers) ==
    [j \in DOMAIN servers |->
        IF j >= 1 THEN [servers[j] EXCEPT !.bw = DATA_RATE_EC_TO_CC]
        ELSE servers[j]]

\* a mutant of inRange: a server at exactly the radius is out of range
inRange_Strict(distance, coverageRadius) == distance < coverageRadius

\* findCovering, line 453: distance <= coverageRadius
inRange(distance, coverageRadius) == distance <= coverageRadius

RECURSIVE EdgeLinks(_, _, _, _)
\* findCovering, first inner loop from index j on: the edge servers within
\* the radius, in index order
EdgeLinks(device, servers, coverageRadius, j) ==
    IF j >= Size(servers) THEN <<>>
    ELSE LET distance == calculateDistance(device, servers[j])
             here == IF servers[j].type = "E"
                        /\ inRange(distance, coverageRadius)
                     THEN <<[NoLink EXCEPT !.id = j, !.distance = distance]>>
                     ELSE <<>>
         IN  here \o EdgeLinks(device, servers, coverageRadius, j + 1)

RECURSIVE CloudLinks(_, _)
\* findCovering, second inner loop from index j on: every cloud server
CloudLinks(servers, j) ==
    IF j >= Size(servers) THEN <<>>
    ELSE (IF servers[j].type = "C" THEN <<[NoLink EXCEPT !.id = j]>> ELSE <<>>)
         \o CloudLinks(servers, j + 1)

\* findCovering: one device afterwards
findCoveringDevice(device, servers, coverageRadius) ==
    LET edges == EdgeLinks(device, servers, coverageRadius, 1) IN
    IF edges # <<>>
    THEN [device EXCEPT !.covered = TRUE,
                        !.servers = edges \o CloudLinks(servers, 1)]
    ELSE device

\* findCovering: the devices afterwards
findCoveringDevices(devices, servers, coverageRadius) ==
    [i \in DOMAIN devices |->
        IF i >= 1 THEN findCoveringDevice(devices[i], servers, coverageRadius)
        ELSE devices[i]]

RECURSIVE CoveredIds(_, _)
\* findCovering: the ids of the covered devices, from index i on
CoveredIds(devices, i) ==
    IF i >= Size(devices) THEN <<>>
    ELSE (IF devices[i].covered THEN <<devices[i].id>> ELSE <<>>)
         \o CoveredIds(devices, i + 1)

\* findCovering: the metrics afterwards
findCoveringMetrics(devices, metrics) ==
    [metrics EXCEPT
        !.outputs.cost_of_non_coverage =
            @ + SumOver({i \in DOMAIN devices : i >= 1 /\ ~devices[i].covered},
                        [i \in DOMAIN devices |-> devices[i].cnd]),
        !.outputs.devices_covered_count = Len(CoveredIds(devices, 1))]

RECURSIVE ClosestEdge(_, _, _, _)
\* timeCalculation: the closest edge candidate, scanning links from k on
ClosestEdge(links, servers, k, best) ==
    IF k > Len(links) THEN best
    ELSE IF servers[links[k].id].type = "E" /\ links[k].distance < best.distance
         THEN ClosestEdge(links, servers, k + 1,
                          [id |-> links[k].id, distance |-> links[k].distance])
         ELSE ClosestEdge(links, servers, k + 1, best)

\* timeCalculation: one candidate link of a covered device afterwards
timeLink(device, servers, s, closestEdge) ==
    LET server == servers[s.id]
        processingTime == device.s_d * server.t_p
        transmission == (device.s_d * 100000) \div device.bw
        connectionTime ==
            IF server.type = "C"
            THEN transmission
                 + ((closestEdge.distance
                     + calculateDistance(servers[closestEdge.id], server)) * 100)
                   \div SPEED_OF_LIGHT
                 + INTER_DC_LATENCY
            ELSE transmission + (s.distance * 100) \div SPEED_OF_LIGHT
    IN  [s EXCEPT
            !.id_routing = IF server.type = "C" THEN closestEdge.id ELSE @,
            !.processingTime = processingTime,
            !.connectionTime = connectionTime,
            !.responseTime = connectionTime + processingTime]

\* timeCalculation: the devices afterwards
timeCalculation(devices, servers) ==
    [i \in DOMAIN devices |->
        IF i >= 1 /\ devices[i].covered
        THEN LET closestEdge ==
                    ClosestEdge(devices[i].servers, servers, 1,
                                [id |-> 0, distance |-> EARTH_RADIUS])
             IN  [devices[i] EXCEPT
                    !.servers = [k \in DOMAIN @ |->
                                    timeLink(devices[i], servers, @[k],
                                             closestEdge)]]
        ELSE devices[i]]

\* Result{devices, servers, coveredDevicesIdx, metrics}
NewResult(devices, servers, coveredDevicesIdx, metrics) ==
    [devices |-> devices, servers |-> servers,
     coveredDevicesIdx |-> coveredDevicesIdx, metrics |-> metrics]

\* coverage: an unknown technology returns early with nothing changed
coverage(devices, servers, metrics) ==
    LET techProps == techParams(metrics.inputs.tech) IN
    IF techProps.radius < 0
    THEN NewResult(devices, servers, <<>>, metrics)
    ELSE LET ds == bandwidthDevices(devices, techProps.rate)
             ss == bandwidthServers(servers)
             cov == findCoveringDevices(ds, ss, techProps.radius)
         IN  NewResult(timeCalculation(cov, ss), ss, CoveredIds(cov, 1),
                       findCoveringMetrics(cov, metrics))

\* coverage: whether "Invalid technology ID" was reported
coverageError(tech) == techParams(tech).radius < 0

\* std::optional<Result>: no value
NoState ==
    [has |-> FALSE,
     value |-> NewResult(EmptyVec, EmptyVec, <<>>, NewMetrics(0, 0, 0, 0))]

\* std::optional<Result>: a value
SomeState(r) == [has |-> TRUE, value |-> r]

\* pre_calculation: no state for a count that is not positive or for an
\* empty devices or servers vector
pre_calculation(numDevices, numServersEC, numServersCC, tech, dataset) ==
    IF numDevices <= 0 \/ numServersEC <= 0 \/ numServersCC <= 0
    THEN NoState
    ELSE LET devices == loadDevices(numDevices, dataset)
             servers == loadServers(numServersEC, numServersCC, dataset)
         IN  IF Size(devices) = 0 \/ Size(servers) = 0 THEN NoState
             ELSE SomeState(coverage(devices, servers,
                                     NewMetrics(numDevices, numServersEC,
                                                numServersCC, tech)))

\* what pre_calculation and the loaders write to std::cerr
pre_calculationErrors(numDevices, numServersEC, numServersCC, tech, dataset) ==
    IF numDevices <= 0 \/ numServersEC <= 0 \/ numServersCC <= 0
    THEN {"Number of devices and servers must be positive"}
    ELSE (IF dataset = "empty"
          THEN {"Device data file not found or is empty",
                "Failed to load device or server data"}
          ELSE {})
         \cup (IF dataset # "empty"
                   /\ ParsedDevices(numDevices, dataset) < numDevices
                THEN {"Error parsing device data"} ELSE {})
         \cup (IF dataset = "noservers"
                THEN {"Error parsing server data"} ELSE {})
         \cup (IF dataset # "empty" /\ coverageError(tech)
                THEN {"Invalid technology ID provided"} ELSE {})

\* createBottleneck, lines 663-667: {mem, sto} of the servers from index
\* servers_ec + 1 on
bottleneckValues(r) ==
    LET startCC == r.metrics.inputs.servers_ec + 1 IN
    [k \in 1 .. (Size(r.servers) - startCC) |->
        [first |-> r.servers[startCC + k - 1].mem,
         second |-> r.servers[startCC + k - 1].sto]]

\* createBottleneck, lines 675-677: mem and sto at 0.999999 of the server's
\* (x - x / 10^6, which keeps the products within 32 bits), cnd = 9.9
bottleneckDevice(device, value) ==
    [device EXCEPT !.mem = value.first - value.first \div 1000000,
                   !.sto = value.second - value.second \div 1000000,
                   !.cnd = 990000]

\* createBottleneck: the iterations of while (loop--) in which idx[i] and
\* bottleneckValues[i] are elements of their vectors
bottleneckInRange(r) ==
    LET loop == r.metrics.inputs.servers_cc
        a == Len(r.coveredDevicesIdx)
        b == Len(bottleneckValues(r))
        m == IF a < b THEN a ELSE b
    IN  IF loop < m THEN loop ELSE m

\* createBottleneck: every iteration reads elements of idx and of
\* bottleneckValues
bottleneckDefined(r) == bottleneckInRange(r) = r.metrics.inputs.servers_cc

RECURSIVE bottleneckLoop(_, _, _, _, _)
\* createBottleneck: the iterations i .. n-1 of while (loop--)
bottleneckLoop(devices, idx, values, i, n) ==
    IF i >= n THEN devices
    ELSE bottleneckLoop([devices EXCEPT ![idx[i + 1]] =
                            bottleneckDevice(@, values[i + 1])],
                        idx, values, i + 1, n)

\* createBottleneck(state, false): the Result after the iterations that are
\* in range
createBottleneck(r) ==
    [r EXCEPT !.devices = bottleneckLoop(r.devices, r.coveredDevicesIdx,
                                         bottleneckValues(r), 0,
                                         bottleneckInRange(r))]

\* a mutant of calculateMetrics: the total leaves out the non-coverage cost
calculateMetrics_TotalWithoutCoverage(devices, servers, metrics) ==
    LET ids == {i \in DOMAIN devices : devices[i].id # 0}
        served == {i \in ids : devices[i].served}
        servedEC == {i \in served : servers[devices[i].server.id].type = "E"}
        unserved == {i \in ids : ~devices[i].served /\ devices[i].covered}
        used == {j \in DOMAIN servers : servers[j].id # 0 /\ servers[j].on}
        usedEC == {j \in used : servers[j].type = "E"}
        csu == SumOver(used, [j \in DOMAIN servers |-> servers[j].csc])
        cns == SumOver(unserved, [i \in DOMAIN devices |-> devices[i].cnd])
        rt == SumOver(served, [i \in DOMAIN devices |->
                                    devices[i].server.responseTime])
    IN  [metrics EXCEPT !.outputs =
            [@ EXCEPT
                !.devices_served_count = Cardinality(served),
                !.devices_served_ec_count = Cardinality(servedEC),
                !.devices_served_cc_count = Cardinality(served \ servedEC),
                !.servers_used_count = Cardinality(used),
                !.servers_used_ec_count = Cardinality(usedEC),
                !.servers_used_cc_count = Cardinality(used \ usedEC),
                !.cost_of_servers_used = csu,
                !.cost_of_non_service = cns,
                !.total_cost = cns + csu,
                !.average_response_time =
                    IF served # {} THEN rt \div Cardinality(served) ELSE 0]]

\* a mutant of calculateMetrics: a covered unserved device without candidates
\* is left out of the non-service cost
calculateMetrics_SkipsEmptyLists(devices, servers, metrics) ==
    LET ids == {i \in DOMAIN devices : devices[i].id # 0}
        served == {i \in ids : devices[i].served}
        servedEC == {i \in served : servers[devices[i].server.id].type = "E"}
        unserved == {i \in ids : /\ ~devices[i].served
                                 /\ devices[i].covered
                                 /\ devices[i].servers # <<>>}
        used == {j \in DOMAIN servers : servers[j].id # 0 /\ servers[j].on}
        usedEC == {j \in used : servers[j].type = "E"}
        csu == SumOver(used, [j \in DOMAIN servers |-> servers[j].csc])
        cns == SumOver(unserved, [i \in DOMAIN devices |-> devices[i].cnd])
        rt == SumOver(served, [i \in DOMAIN devices |->
                                    devices[i].server.responseTime])
    IN  [metrics EXCEPT !.outputs =
            [@ EXCEPT
                !.devices_served_count = Cardinality(served),
                !.devices_served_ec_count = Cardinality(servedEC),
                !.devices_served_cc_count = Cardinality(served \ servedEC),
                !.servers_used_count = Cardinality(used),
                !.servers_used_ec_count = Cardinality(usedEC),
                !.servers_used_cc_count = Cardinality(used \ usedEC),
                !.cost_of_servers_used = csu,
                !.cost_of_non_service = cns,
                !.total_cost = metrics.outputs.cost_of_non_coverage + cns + csu,
                !.average_response_time =
                    IF served # {} THEN rt \div Cardinality(served) ELSE 0]]

\* a mutant of calculateMetrics: the cost counters are not reset on entry
calculateMetrics_NoReset(devices, servers, metrics) ==
    LET ids == {i \in DOMAIN devices : devices[i].id # 0}
        served == {i \in ids : devices[i].served}
        servedEC == {i \in served : servers[devices[i].server.id].type = "E"}
        unserved == {i \in ids : ~devices[i].served /\ devices[i].covered}
        used == {j \in DOMAIN servers : servers[j].id # 0 /\ servers[j].on}
        usedEC == {j \in used : servers[j].type = "E"}
        csu == metrics.outputs.cost_of_servers_used
               + SumOver(used, [j \in DOMAIN servers |-> servers[j].csc])
        cns == metrics.outputs.cost_of_non_service
               + SumOver(unserved, [i \in DOMAIN devices |-> devices[i].cnd])
        rt == SumOver(served, [i \in DOMAIN devices |->
                                    devices[i].server.responseTime])
    IN  [metrics EXCEPT !.outputs =
            [@ EXCEPT
                !.devices_served_count = Cardinality(served),
                !.devices_served_ec_count = Cardinality(servedEC),
                !.devices_served_cc_count = Cardinality(served \ servedEC),
                !.servers_used_count = Cardinality(used),
                !.servers_used_ec_count = Cardinality(usedEC),
                !.servers_used_cc_count = Cardinality(used \ usedEC),
                !.cost_of_servers_used = csu,
                !.cost_of_non_service = cns,
                !.total_cost = metrics.outputs.cost_of_non_coverage + cns + csu,
                !.average_response_time =
                    IF served # {} THEN rt \div Cardinality(served) ELSE 0]]

\* calculateMetrics: a full scan from zeroed counters; cost_of_non_coverage
\* and devices_covered_count are read, never written
calculateMetrics(devices, servers, metrics) ==
    LET ids == {i \in DOMAIN devices : devices[i].id # 0}
        served == {i \in ids : devices[i].served}
        servedEC == {i \in served : servers[devices[i].server.id].type = "E"}
        unserved == {i \in ids : ~devices[i].served /\ devices[i].covered}
        used == {j \in DOMAIN servers : servers[j].id # 0 /\ servers[j].on}
        usedEC == {j \in used : servers[j].type = "E"}
        csu == SumOver(used, [j \in DOMAIN servers |-> servers[j].csc])
        cns == SumOver(unserved, [i \in DOMAIN devices |-> devices[i].cnd])
        rt == SumOver(served, [i \in DOMAIN devices |->
                                    devices[i].server.responseTime])
    IN  [metrics EXCEPT !.outputs =
            [@ EXCEPT
                !.devices_served_count = Cardinality(served),
                !.devices_served_ec_count = Cardinality(servedEC),
                !.devices_served_cc_count = Cardinality(served \ servedEC),
                !.servers_used_count = Cardinality(used),
                !.servers_used_ec_count = Cardinality(usedEC),
                !.servers_used_cc_count = Cardinality(used \ usedEC),
                !.cost_of_servers_used = csu,
                !.cost_of_non_service = cns,
                !.total_cost = metrics.outputs.cost_of_non_coverage + cns + csu,
                !.average_response_time =
                    IF served # {} THEN rt \div Cardinality(served) ELSE 0]]

(***************************************************************************)
(* The state of one initializeSimulation call (main.cpp).                  *)
(***************************************************************************)
VARIABLES
    pc,          \* the position of the program
    in,          \* the arguments of initializeSimulation and of bootup
    state,       \* std::optional<Result>: what pre_calculation returned
    baseState,   \* MetaHeuristics::bootup: Result baseState
    iteration,   \* MetaHeuristics::bootup: Result iteration
    trial,       \* MetaHeuristics::bootup: the loop counter i < loopTest
    target,      \* which Result the running heuristic was handed
    ret,         \* where Heuristics::bootup returns to
    order,       \* the heuristic's list of device indices still to process
    T,           \* simulatedAnnealing: the temperature
    i,           \* simulatedAnnealing: the inner loop counter
    best,        \* simulatedAnnealing: bestDevices/Servers/CNS/CSU/Cost
    current,     \* simulatedAnnealing: currentDevices/Servers/CNS/CSU/Cost
    neighbor,    \* simulatedAnnealing: neighborDevices/Servers/CNS/CSU
    pending,     \* generateNeighbor: the move between release and commit
    errors,      \* the error messages written to std::cerr / std::cout
    ran          \* the strategies that have been entered

vars == <<pc, in, state, baseState, iteration, trial, target, ret, order, T, i,
          best, current, neighbor, pending, errors, ran>>

saVars == <<T, i, best, current, neighbor, pending>>

\* the names Heuristics::bootup accepts by equality or by the prefix test
\* algorithm.rfind("Greedy", 0) == 0, and one it rejects
GreedyNames ==
    {"Greedy_AscAsc", "Greedy_AscDesc", "Greedy_DescAsc", "Greedy_DescDesc"}
KnownHeuristics == {"Random"} \cup GreedyNames
HeuristicNames == KnownHeuristics \cup {"Greedy_Best", "Tabu"}

\* algorithm.rfind("Greedy", 0) == 0 over HeuristicNames
HasGreedyPrefix(name) == name \in GreedyNames \cup {"Greedy_Best"}

\* a Result with nothing in it, for the locals not yet constructed
NoResult == NoState.value

NoSolution == [devices |-> EmptyVec, servers |-> EmptyVec, CNS |-> 0,
               CSU |-> 0, Cost |-> 0]

NoMove == [idx |-> 0, link |-> NoLink]

\* the Result the running heuristic mutates in place
TargetResult ==
    CASE target = "state" -> state.value
      [] target = "baseState" -> baseState
      [] OTHER -> iteration

\* the heuristic's Result& state after an in-place update to r
SetTarget(r) ==
    /\ state' = IF target = "state" THEN SomeState(r) ELSE state
    /\ baseState' = IF target = "baseState" THEN r ELSE baseState
    /\ iteration' = IF target = "iteration" THEN r ELSE iteration

\* the name Heuristics::bootup is called with
HeuristicName ==
    IF in.simulation = "Heuristic" THEN in.algorithm ELSE in.heuristic

(***************************************************************************)
(* Heuristics.h: randomHeuristic, greedyHeuristic, bootup.                 *)
(***************************************************************************)
\* a mutant of commitDevices: the link is left as it was
commitDevices_NoLink(devices, servers, d_idx, link) ==
    [devices EXCEPT ![d_idx] =
        addServedDevice(servers[link.id], devices[d_idx])]

\* server.addServed(device); device.server = potential_server: the devices
commitDevices(devices, servers, d_idx, link) ==
    [devices EXCEPT ![d_idx] =
        [addServedDevice(servers[link.id], devices[d_idx]) EXCEPT
            !.server = link]]

\* server.addServed(device); device.server = potential_server: the servers
commitServers(devices, servers, d_idx, link) ==
    [servers EXCEPT ![link.id] = addServedServer(@, devices[d_idx])]

\* a mutant of randomPick: the drawn index is taken for the server id
randomPick_IndexAsId(device, s_idx) ==
    [device.servers[s_idx + 1] EXCEPT !.id = s_idx]

\* randomHeuristic: device.servers.at(s_idx), s_idx counted from 0
randomPick(device, s_idx) == device.servers[s_idx + 1]

\* randomHeuristic: one pass of the loop body for device d_idx with the
\* draw s_idx in [0, device.servers.size()]
randomBody(r, d_idx, s_idx) ==
    LET device == r.devices[d_idx] IN
    IF device.servers = <<>> \/ s_idx = Len(device.servers) THEN r
    ELSE LET potential_server == randomPick(device, s_idx) IN
         IF canServe(r.servers[potential_server.id], device)
         THEN [r EXCEPT
                !.devices = commitDevices(r.devices, r.servers, d_idx,
                                          potential_server),
                !.servers = commitServers(r.devices, r.servers, d_idx,
                                          potential_server)]
         ELSE r

\* a mutant of IndexLess: the descending sort also reverses the ties
IndexLess_TiesReversed(Ascending, entities, a, b) ==
    IF Ascending
    THEN entities[a].cnd < entities[b].cnd
         \/ (entities[a].cnd = entities[b].cnd /\ a < b)
    ELSE entities[a].cnd > entities[b].cnd
         \/ (entities[a].cnd = entities[b].cnd /\ a > b)

\* sort_indices_impl: the comparator of two device indices
IndexLess(Ascending, entities, a, b) ==
    IF entities[a].cnd # entities[b].cnd
    THEN IF Ascending THEN entities[a].cnd < entities[b].cnd
         ELSE entities[a].cnd > entities[b].cnd
    ELSE a < b

\* utils::sortEntities over a subset of indices, by Device::cnd
sortEntities(Ascending, entities, indices_to_sort) ==
    IF Size(entities) = 0 \/ indices_to_sort = <<>> THEN <<>>
    ELSE CHOOSE p \in Permutations_(indices_to_sort) :
            \A k, l \in DOMAIN p :
                k < l => IndexLess(Ascending, entities, p[k], p[l])

\* std::sort of device.servers by responseTime: every order the comparator
\* allows (std::sort is not stable, entries that compare equal may land in
\* either order)
sortedServers(links, sortServersAsc) ==
    {p \in Permutations_(links) :
        \A k, l \in DOMAIN p :
            k < l => IF sortServersAsc
                     THEN p[k].responseTime <= p[l].responseTime
                     ELSE p[k].responseTime >= p[l].responseTime}

RECURSIVE firstFeasible_Last(_, _, _, _)
\* a mutant of firstFeasible: the scan does not stop at the first candidate
\* that can serve the device, the last one is taken
firstFeasible_Last(servers, device, links, k) ==
    IF k > Len(links) THEN 0
    ELSE LET later == firstFeasible_Last(servers, device, links, k + 1) IN
         IF later # 0 THEN later
         ELSE IF canServe(servers[links[k].id], device) THEN k
         ELSE 0

RECURSIVE firstFeasible(_, _, _, _)
\* greedyHeuristic: the index of the first candidate from k on whose server
\* canServe the device; 0 when there is none
firstFeasible(servers, device, links, k) ==
    IF k > Len(links) THEN 0
    ELSE IF canServe(servers[links[k].id], device) THEN k
    ELSE firstFeasible(servers, device, links, k + 1)

\* greedyHeuristic: one pass of the outer loop body for device d_idx, with
\* sorted the order std::sort left device.servers in
greedyBody(r, d_idx, sorted) ==
    LET devices == [r.devices EXCEPT ![d_idx].servers = sorted]
        k == firstFeasible(r.servers, devices[d_idx], sorted, 1)
    IN  IF k = 0 THEN [r EXCEPT !.devices = devices]
        ELSE [r EXCEPT
                !.devices = commitDevices(devices, r.servers, d_idx, sorted[k]),
                !.servers = commitServers(devices, r.servers, d_idx, sorted[k])]

\* bootup: sortDevicesAsc
sortDevicesAsc(algorithm) == algorithm \in {"Greedy_AscAsc", "Greedy_AscDesc"}

\* bootup: sortServersAsc
sortServersAsc(algorithm) == algorithm \in {"Greedy_AscAsc", "Greedy_DescAsc"}

\* Heuristics::bootup: the dispatch on the algorithm name
HeuristicsBootup ==
    /\ pc = "h_bootup"
    /\ UNCHANGED <<in, state, baseState, iteration, trial, target, ret, saVars>>
    /\ \/ /\ HeuristicName = "Random"
          /\ order' \in Permutations_(TargetResult.coveredDevicesIdx)
          /\ pc' = "random"
          /\ ran' = ran \cup {"randomHeuristic"}
          /\ errors' = errors
       \/ /\ HeuristicName # "Random"
          /\ HasGreedyPrefix(HeuristicName)
          /\ order' = sortEntities(sortDevicesAsc(HeuristicName),
                                   TargetResult.devices,
                                   TargetResult.coveredDevicesIdx)
          /\ pc' = "greedy"
          /\ ran' = ran \cup {"greedyHeuristic"}
          /\ errors' = errors
       \/ /\ HeuristicName # "Random"
          /\ ~HasGreedyPrefix(HeuristicName)
          /\ errors' = errors \cup {"Unknown heuristic algorithm type"}
          /\ pc' = ret
          /\ UNCHANGED <<order, ran>>

\* randomHeuristic: one iteration of the loop over the shuffled indices
RandomStep ==
    /\ pc = "random"
    /\ order # <<>>
    /\ \E s_idx \in 0 .. Len(TargetResult.devices[Head(order)].servers) :
            SetTarget(randomBody(TargetResult, Head(order), s_idx))
    /\ order' = Tail(order)
    /\ UNCHANGED <<pc, in, trial, target, ret, saVars, errors, ran>>

\* greedyHeuristic: one iteration of the loop over the sorted indices
GreedyStep ==
    /\ pc = "greedy"
    /\ order # <<>>
    /\ \E sorted \in sortedServers(TargetResult.devices[Head(order)].servers,
                                   sortServersAsc(HeuristicName)) :
            SetTarget(greedyBody(TargetResult, Head(order), sorted))
    /\ order' = Tail(order)
    /\ UNCHANGED <<pc, in, trial, target, ret, saVars, errors, ran>>

\* randomHeuristic / greedyHeuristic: the loop is over; calculateMetrics,
\* then bootup shows and saves the metrics and returns
HeuristicFinish ==
    /\ pc \in {"random", "greedy"}
    /\ order = <<>>
    /\ SetTarget([TargetResult EXCEPT
                    !.metrics = calculateMetrics(TargetResult.devices,
                                                 TargetResult.servers, @)])
    /\ pc' = ret
    /\ UNCHANGED <<in, trial, target, ret, order, saVars, errors, ran>>

(***************************************************************************)
(* MetaHeuristics.h: generateNeighbor, simulatedAnnealing, bootup.         *)
(***************************************************************************)
\* the sequence min, min+1, .., max
RangeSeq(min, max) == [k \in 1 .. (max - min + 1) |-> min + k - 1]

\* utils::shuffledRange(min, max): every order of min .. max
shuffledRange(min, max) == Permutations_(RangeSeq(min, max))

RECURSIVE neighborScan_NoLimit(_, _, _, _, _)
\* a mutant of neighborScan: the whole list is tried
neighborScan_NoLimit(servers, device, serversShuffled, n, tries) ==
    IF n > Len(serversShuffled) THEN 0
    ELSE LET potential_server == device.servers[serversShuffled[n] + 1] IN
         IF potential_server.id = device.server.id
         THEN neighborScan_NoLimit(servers, device, serversShuffled, n + 1,
                                   tries + 1)
         ELSE IF canServe(servers[potential_server.id], device)
         THEN serversShuffled[n] + 1
         ELSE neighborScan_NoLimit(servers, device, serversShuffled, n + 1,
                                   tries + 1)

RECURSIVE neighborScan(_, _, _, _, _)
\* generateNeighbor: the loop over serversShuffled from position n on with
\* `tries` candidates already looked at; the 1-based position in
\* device.servers of the candidate moved to, 0 when the loop ends without one
neighborScan(servers, device, serversShuffled, n, tries) ==
    IF n > Len(serversShuffled) \/ tries >= MaxTries THEN 0
    ELSE LET potential_server == device.servers[serversShuffled[n] + 1] IN
         IF potential_server.id = device.server.id
         THEN neighborScan(servers, device, serversShuffled, n + 1, tries + 1)
         ELSE IF canServe(servers[potential_server.id], device)
         THEN serversShuffled[n] + 1
         ELSE neighborScan(servers, device, serversShuffled, n + 1, tries + 1)

\* a mutant of releaseOld: the device is not released from its old server
releaseOld_NoRelease(sol, d_idx, link) ==
    LET device == sol.devices[d_idx]
        new_server == sol.servers[link.id]
    IN  [sol EXCEPT
            !.CSU = IF ~new_server.on THEN @ + new_server.csc ELSE @,
            !.CNS = IF device.served THEN @ ELSE @ - device.cnd]

\* a mutant of releaseOld: the cost of an old server that the release has
\* switched off stays in csu
releaseOld_NoRefund(sol, d_idx, link) ==
    LET device == sol.devices[d_idx]
        old == device.server.id
        new_server == sol.servers[link.id]
        csu1 == IF ~new_server.on THEN sol.CSU + new_server.csc ELSE sol.CSU
        old_after == rmvServedServer(sol.servers[old], device)
    IN  IF device.served
        THEN [sol EXCEPT
                !.devices[d_idx] = rmvServedDevice(sol.servers[old], device),
                !.servers[old] = old_after,
                !.CSU = csu1]
        ELSE [sol EXCEPT !.CSU = csu1, !.CNS = @ - device.cnd]

\* generateNeighbor, lines 39-50: the cost of a newly activated server, then
\* the release from the old server (or the non-service cost given back)
releaseOld(sol, d_idx, link) ==
    LET device == sol.devices[d_idx]
        old == device.server.id
        new_server == sol.servers[link.id]
        csu1 == IF ~new_server.on THEN sol.CSU + new_server.csc ELSE sol.CSU
        old_after == rmvServedServer(sol.servers[old], device)
    IN  IF device.served
        THEN [sol EXCEPT
                !.devices[d_idx] = rmvServedDevice(sol.servers[old], device),
                !.servers[old] = old_after,
                !.CSU = IF ~old_after.on THEN csu1 - old_after.csc ELSE csu1]
        ELSE [sol EXCEPT !.CSU = csu1, !.CNS = @ - device.cnd]

\* a mutant of commitNew: the device is left as the release left it
commitNew_NoCommit(sol, move) == sol

\* generateNeighbor, lines 52-53: the commit to the new server
commitNew(sol, move) ==
    IF move.idx = 0 THEN sol
    ELSE [sol EXCEPT
            !.devices = commitDevices(sol.devices, sol.servers, move.idx,
                                      move.link),
            !.servers = commitServers(sol.devices, sol.servers, move.idx,
                                      move.link)]

\* generateNeighbor for the draws d_idx = coveredDevicesIdx.at(idx) and
\* serversShuffled: the solution when it returns
generateNeighbor(sol, d_idx, serversShuffled) ==
    LET device == sol.devices[d_idx]
        k == neighborScan(sol.servers, device, serversShuffled, 1, 0)
    IN  IF k = 0 THEN sol
        ELSE commitNew(releaseOld(sol, d_idx, device.servers[k]),
                       [idx |-> d_idx, link |-> device.servers[k]])

\* a solution of simulatedAnnealing with its total cost
WithCost(sol) ==
    [devices |-> sol.devices, servers |-> sol.servers, CNS |-> sol.CNS,
     CSU |-> sol.CSU, Cost |-> sol.CNS + sol.CSU]

\* Devices neighborDevices = currentDevices; ... the copies of the current
\* solution a neighbor starts from
CopyOf(sol) ==
    [devices |-> sol.devices, servers |-> sol.servers, CNS |-> sol.CNS,
     CSU |-> sol.CSU]

\* a mutant of newBest: every accepted improving move replaces the best
newBest_Always(bestSol, currentSol) == currentSol

\* simulatedAnnealing, lines 107-113: the best solution after an improving
\* move was accepted as the current one
newBest(bestSol, currentSol) ==
    IF currentSol.Cost < bestSol.Cost THEN currentSol ELSE bestSol

\* utils::randomNumber(0.0, 1.0) < std::exp(-delta / T) for delta >= 0: the
\* draw lies in [0, 1), so delta = 0 always passes
metropolis(delta) == IF delta = 0 THEN {TRUE} ELSE {TRUE, FALSE}

\* a mutant of cool: the temperature is left as it is
cool_Never(t, alphaPct) == t

\* T *= alpha, alpha in hundredths
cool(t, alphaPct) == (t * alphaPct) \div 100

\* simulatedAnnealing: the copies and costs set up before the loop
SAStart ==
    /\ pc = "meta_sa"
    /\ in.algorithm = "SA"
    /\ LET s == WithCost([devices |-> iteration.devices,
                          servers |-> iteration.servers,
                          CNS |-> iteration.metrics.outputs.cost_of_non_service,
                          CSU |-> iteration.metrics.outputs.cost_of_servers_used])
       IN  best' = s /\ current' = s
    /\ T' = in.T
    /\ i' = 0
    /\ neighbor' = NoSolution
    /\ pending' = NoMove
    /\ ran' = ran \cup {"simulatedAnnealing"}
    /\ pc' = IF in.T > MinTemp THEN "sa_inner" ELSE "sa_finish"
    /\ UNCHANGED <<in, state, baseState, iteration, trial, target, ret, order,
                   errors>>

\* MetaHeuristics::bootup: the algorithm is not "SA"
MetaUnknownAlgorithm ==
    /\ pc = "meta_sa"
    /\ in.algorithm # "SA"
    /\ errors' = errors \cup {"Unknown simulation or algorithm type"}
    /\ pc' = "done"
    /\ UNCHANGED <<in, state, baseState, iteration, trial, target, ret, order,
                   saVars, ran>>

\* generateNeighbor up to the release: the device and the shuffled candidate
\* order are drawn; randomNumber(0, -1) throws when no device is covered and
\* the exception ends the simulation in main's catch
SANeighbor ==
    /\ pc = "sa_inner"
    /\ UNCHANGED <<in, state, baseState, iteration, trial, target, ret, order,
                   T, i, best, current, ran>>
    /\ \/ /\ iteration.coveredDevicesIdx = <<>>
          /\ errors' = errors \cup {"Falha na simulacao"}
          /\ pc' = "crashed"
          /\ UNCHANGED <<neighbor, pending>>
       \/ /\ iteration.coveredDevicesIdx # <<>>
          /\ \E idx \in 0 .. Len(iteration.coveredDevicesIdx) - 1 :
                LET d_idx == iteration.coveredDevicesIdx[idx + 1]
                    device == current.devices[d_idx]
                IN  \E serversShuffled \in
                            shuffledRange(0, Len(device.servers) - 1) :
                        LET k == neighborScan(current.servers, device,
                                              serversShuffled, 1, 0)
                        IN  IF k = 0
                            THEN /\ neighbor' = CopyOf(current)
                                 /\ pending' = NoMove
                            ELSE /\ neighbor' = releaseOld(CopyOf(current),
                                                    d_idx, device.servers[k])
                                 /\ pending' = [idx |-> d_idx,
                                                link |-> device.servers[k]]
          /\ pc' = "sa_accept"
          /\ errors' = errors

\* generateNeighbor from the commit on, then the acceptance test, ++i and,
\* when the inner loop is over, the cooling and the outer loop test
SAAccept ==
    /\ pc = "sa_accept"
    /\ LET nb == WithCost(commitNew(neighbor, pending))
           delta == nb.Cost - current.Cost
       IN  \E accept \in (IF delta < 0 THEN {TRUE} ELSE metropolis(delta)) :
            LET i1 == IF delta < 0 THEN 1 ELSE i + 1 IN
            /\ current' = IF accept THEN nb ELSE current
            /\ best' = IF delta < 0 THEN newBest(best, nb) ELSE best
            /\ IF i1 < InnerLoop
               THEN /\ i' = i1
                    /\ T' = T
                    /\ pc' = "sa_inner"
               ELSE /\ i' = 0
                    /\ T' = cool(T, in.alphaPct)
                    /\ pc' = IF cool(T, in.alphaPct) > MinTemp
                             THEN "sa_inner" ELSE "sa_finish"
    /\ neighbor' = NoSolution
    /\ pending' = NoMove
    /\ UNCHANGED <<in, state, baseState, iteration, trial, target, ret, order,
                   errors, ran>>

\* simulatedAnnealing, line 128: calculateMetrics(bestDevices, bestServers,
\* *state.metrics); state.devices and state.servers are not assigned
SAFinish ==
    /\ pc = "sa_finish"
    /\ iteration' = [iteration EXCEPT
                        !.metrics = calculateMetrics(best.devices,
                                                     best.servers, @)]
    /\ pc' = "sa_return"
    /\ UNCHANGED <<in, state, baseState, trial, target, ret, order, saVars,
                   errors, ran>>

(***************************************************************************)
(* main.cpp: initializeSimulation, and the loop of MetaHeuristics::bootup. *)
(***************************************************************************)
\* the server pool of the runs: numServersEC and numServersCC
ServerPool == [ec |-> 2, cc |-> 1]

\* the cooling rates handed to MetaHeuristics::bootup, in hundredths
AlphaPcts == {50}

\* the technology ids of the annealing runs: 4G, the shortest radius (no
\* device is in range of an edge server), and two ids techParams does not
\* know
Techs == {0, 4, 6, 7}

\* the technology ids of the heuristic runs: every known id and two unknown
AllTechs == 0 .. 7

\* the runs of Heuristics::bootup: every name, with and without devices
HeuristicRuns ==
    {[simulation |-> "Heuristic", algorithm |-> a, heuristic |-> "Random",
      numDevices |-> n, T |-> MaxTemp, loopTest |-> MaxLoopTest] :
        a \in HeuristicNames, n \in {0, MaxDevices}}

\* the runs of MetaHeuristics::bootup from a greedy or an unknown initial
\* heuristic, cold (the annealing loop is not entered) and hot, one trial
\* fewer
GreedyMetaRuns ==
    {[simulation |-> "MetaHeuristic", algorithm |-> a, heuristic |-> h,
      numDevices |-> MaxDevices, T |-> t, loopTest |-> MaxLoopTest - 1] :
        a \in {"SA", "Tabu"}, h \in {"Greedy_DescAsc", "Tabu"},
        t \in {MinTemp, MaxTemp}}

\* the runs of MetaHeuristics::bootup from a random initial solution: one
\* device fewer and a lower initial temperature
RandomMetaRuns ==
    {[simulation |-> "MetaHeuristic", algorithm |-> a, heuristic |-> "Random",
      numDevices |-> MaxDevices - 1, T |-> RandomTemp,
      loopTest |-> MaxLoopTest] :
        a \in {"SA", "Tabu"}}

\* a driver of the Server interface alone: addServed and rmvServed called
\* in any order for any server and device of a pre-calculated state
CapacityRuns ==
    {[simulation |-> "CapacityTest", algorithm |-> "none",
      heuristic |-> "none", numDevices |-> MaxDevices - 1, T |-> MinTemp,
      loopTest |-> 0]}

\* a driver of randomHeuristic alone: it is called on a pre-calculated
\* state in which the candidate list of a covered device has been emptied
\* (findCovering never leaves such a list; randomHeuristic, line 28, allows
\* for it)
EmptyListRuns ==
    {[simulation |-> "EmptyListTest", algorithm |-> "Random",
      heuristic |-> "Random", numDevices |-> MaxDevices, T |-> MinTemp,
      loopTest |-> 0]}

\* the runs over the data sets with data errors: the random and a greedy
\* strategy
DataErrorRuns ==
    {[numDevices |-> MaxDevices, numServersEC |-> ServerPool.ec,
      numServersCC |-> ServerPool.cc, techType |-> 4, dataset |-> ds,
      simulation |-> "Heuristic", algorithm |-> a, heuristic |-> "Random",
      bottlenecks |-> FALSE,
      T |-> MaxTemp, alphaPct |-> al, loopTest |-> MaxLoopTest] :
        ds \in DataErrorSets, a \in {"Random", "Greedy_DescAsc"},
        al \in AlphaPcts}

\* the runs with the bottleneck hook (bottlenecks = true, as main calls
\* initializeSimulation): the heuristics with and without devices, with
\* covered devices (3G, 4G) and without (6G), on well-formed data and on
\* data with errors; and the annealing from a greedy initial solution
BottleneckRuns ==
    {[numDevices |-> n, numServersEC |-> ServerPool.ec,
      numServersCC |-> ServerPool.cc, techType |-> t, dataset |-> ds,
      simulation |-> "Heuristic", algorithm |-> a, heuristic |-> "Random",
      bottlenecks |-> TRUE,
      T |-> MaxTemp, alphaPct |-> al, loopTest |-> MaxLoopTest] :
        n \in {0, MaxDevices}, t \in {3, 4, 6},
        ds \in {"heavy", "mixed"} \cup DataErrorSets,
        a \in {"Random", "Greedy_DescAsc", "Greedy_AscDesc"},
        al \in AlphaPcts}
    \cup
    {[numDevices |-> MaxDevices, numServersEC |-> ServerPool.ec,
      numServersCC |-> ServerPool.cc, techType |-> 4, dataset |-> ds,
      simulation |-> "MetaHeuristic", algorithm |-> "SA",
      heuristic |-> "Greedy_DescAsc", bottlenecks |-> TRUE,
      T |-> MaxTemp, alphaPct |-> al, loopTest |-> MaxLoopTest - 1] :
        ds \in {"mixed", "mixed2"}, al \in AlphaPcts}

\* the runs in which a covered device has one candidate more than a
\* generateNeighbor call tries: one device in the range of MaxTries edge
\* servers (2G), made by the bottleneck hook to fit the cloud server alone
WideRuns ==
    {[numDevices |-> 1, numServersEC |-> MaxTries,
      numServersCC |-> ServerPool.cc, techType |-> 1, dataset |-> "light",
      simulation |-> "MetaHeuristic", algorithm |-> "SA",
      heuristic |-> "Random", bottlenecks |-> TRUE,
      T |-> RandomTemp, alphaPct |-> al, loopTest |-> MaxLoopTest - 1] :
        al \in AlphaPcts}

\* the arguments of one initializeSimulation call
Inputs(ecCounts, ccCounts, techs, runs) ==
    {[numDevices |-> r.numDevices, numServersEC |-> ec, numServersCC |-> cc,
      techType |-> t, dataset |-> ds, simulation |-> r.simulation,
      algorithm |-> r.algorithm, heuristic |-> r.heuristic,
      bottlenecks |-> FALSE,
      T |-> r.T, alphaPct |-> a, loopTest |-> r.loopTest] :
        ec \in ecCounts, cc \in ccCounts, t \in techs, ds \in Datasets,
        r \in runs, a \in AlphaPcts}

InitWith(inputs) ==
    /\ in \in inputs
    /\ pc = "start"
    /\ state = NoState
    /\ baseState = NoResult
    /\ iteration = NoResult
    /\ trial = 0
    /\ target = "state"
    /\ ret = "done"
    /\ order = <<>>
    /\ T = 0
    /\ i = 0
    /\ best = NoSolution
    /\ current = NoSolution
    /\ neighbor = NoSolution
    /\ pending = NoMove
    /\ errors = {}
    /\ ran = {}

\* the arguments of the runs
AllInputs ==
    Inputs({0, ServerPool.ec}, {0, ServerPool.cc}, AllTechs, HeuristicRuns)
    \cup Inputs({ServerPool.ec}, {ServerPool.cc}, Techs,
                GreedyMetaRuns \cup RandomMetaRuns)
    \cup {x \in Inputs({ServerPool.ec}, {ServerPool.cc}, {4}, CapacityRuns) :
            x.dataset = "mixed"}
    \cup Inputs({ServerPool.ec}, {ServerPool.cc}, {4}, EmptyListRuns)
    \cup DataErrorRuns
    \cup BottleneckRuns
    \cup WideRuns

Init == InitWith(AllInputs)

\* initializeSimulation, line 27: pre_calculation; without a state the
\* failure is printed and nothing else runs
PreCalculation ==
    /\ pc = "start"
    /\ state' = pre_calculation(in.numDevices, in.numServersEC,
                                in.numServersCC, in.techType, in.dataset)
    /\ errors' = errors
        \cup pre_calculationErrors(in.numDevices, in.numServersEC,
                                   in.numServersCC, in.techType, in.dataset)
    /\ pc' = IF in.bottlenecks THEN "bottleneck"
             ELSE IF state'.has THEN "dispatch" ELSE "done"
    /\ UNCHANGED <<in, baseState, iteration, trial, target, ret, order,
                   saVars, ran>>

\* initializeSimulation, line 29: if (bottlenecks) createBottleneck(state,
\* false), before if (state).  The hook dereferences the optional without a
\* test, and reads idx[i] and bottleneckValues[i] for servers_cc iterations
\* whatever the sizes of the two vectors.  Reading an optional without a
\* value or past the end of a vector is undefined: the process is killed, or
\* the hook returns, its stray write having landed outside the run state or
\* on one of the devices
CreateBottleneck ==
    /\ pc = "bottleneck"
    /\ ran' = ran \cup {"createBottleneck"}
    /\ \/ /\ state.has
          /\ bottleneckDefined(state.value)
          /\ state' = SomeState(createBottleneck(state.value))
          /\ pc' = "dispatch"
       \/ /\ state.has
          /\ ~bottleneckDefined(state.value)
          /\ \/ /\ state' = SomeState(createBottleneck(state.value))
                /\ pc' \in {"segfault", "dispatch"}
             \/ /\ \E d \in DOMAIN state.value.devices :
                    state' = SomeState(
                        [createBottleneck(state.value) EXCEPT
                            !.devices[d].cnd = 990000])
                /\ pc' = "dispatch"
       \/ /\ ~state.has
          /\ state' = state
          /\ pc' \in {"segfault", "done"}
    /\ UNCHANGED <<in, baseState, iteration, trial, target, ret, order,
                   saVars, errors>>

\* initializeSimulation, lines 31-43: the simulation type selects bootup;
\* MetaHeuristics::bootup first copies the state it is given
Dispatch ==
    /\ pc = "dispatch"
    /\ \/ /\ in.simulation = "Heuristic"
          /\ target' = "state"
          /\ ret' = "done"
          /\ pc' = "h_bootup"
          /\ UNCHANGED baseState
       \/ /\ in.simulation = "MetaHeuristic"
          /\ baseState' = state.value
          /\ IF in.heuristic = "Random"
             THEN pc' = "meta_loop" /\ UNCHANGED <<target, ret>>
             ELSE /\ target' = "baseState"
                  /\ ret' = "meta_loop"
                  /\ pc' = "h_bootup"
    /\ UNCHANGED <<in, state, iteration, trial, order, saVars, errors, ran>>

\* a mutant of MetaLoop: a later trial goes on from the Result the trial
\* before it left
MetaLoop_NoCopy ==
    /\ pc = "meta_loop"
    /\ IF trial < in.loopTest
       THEN /\ iteration' = IF trial = 0 THEN baseState ELSE iteration
            /\ IF in.heuristic = "Random"
               THEN /\ target' = "iteration"
                    /\ ret' = "meta_sa"
                    /\ pc' = "h_bootup"
               ELSE pc' = "meta_sa" /\ UNCHANGED <<target, ret>>
       ELSE /\ pc' = "done"
            /\ UNCHANGED <<iteration, target, ret>>
    /\ UNCHANGED <<in, state, baseState, trial, order, saVars, errors, ran>>

\* MetaHeuristics::bootup: the head of the trial loop; a trial starts from a
\* copy of baseState, and with heuristic "Random" the heuristic is run on
\* that copy
MetaLoop ==
    /\ pc = "meta_loop"
    /\ IF trial < in.loopTest
       THEN /\ iteration' = baseState
            /\ IF in.heuristic = "Random"
               THEN /\ target' = "iteration"
                    /\ ret' = "meta_sa"
                    /\ pc' = "h_bootup"
               ELSE pc' = "meta_sa" /\ UNCHANGED <<target, ret>>
       ELSE /\ pc' = "done"
            /\ UNCHANGED <<iteration, target, ret>>
    /\ UNCHANGED <<in, state, baseState, trial, order, saVars, errors, ran>>

\* MetaHeuristics::bootup: simulatedAnnealing has returned; the metrics of
\* the trial are shown and saved and the loop counter is incremented
MetaTrialEnd ==
    /\ pc = "sa_return"
    /\ trial' = trial + 1
    /\ T' = 0
    /\ i' = 0
    /\ best' = NoSolution
    /\ current' = NoSolution
    /\ neighbor' = NoSolution
    /\ pending' = NoMove
    /\ pc' = "meta_loop"
    /\ UNCHANGED <<in, state, baseState, iteration, target, ret, order,
                   errors, ran>>

\* the driver of randomHeuristic empties the candidate list of one covered
\* device and calls Heuristics::bootup("Random", state)
EmptyListStart ==
    /\ pc = "dispatch"
    /\ in.simulation = "EmptyListTest"
    /\ \E d \in Range(state.value.coveredDevicesIdx) :
            state' = SomeState([state.value EXCEPT
                                    !.devices[d].servers = <<>>])
    /\ target' = "state"
    /\ ret' = "done"
    /\ pc' = "h_bootup"
    /\ UNCHANGED <<in, baseState, iteration, trial, order, saVars, errors,
                   ran>>

\* the driver of the Server interface starts on the pre-calculated state
CapStart ==
    /\ pc = "dispatch"
    /\ in.simulation = "CapacityTest"
    /\ pc' = "cap"
    /\ UNCHANGED <<in, state, baseState, iteration, trial, target, ret, order,
                   saVars, errors, ran>>

\* servers[j].addServed(devices[d]): no capacity check is made here.  The
\* state before the call is kept in baseState and the call in pending, until
\* the next call
CapAdd ==
    /\ pc = "cap"
    /\ \E j \in DOMAIN state.value.servers \ {0},
          d \in DOMAIN state.value.devices \ {0} :
        LET server == state.value.servers[j]
            device == state.value.devices[d]
        IN  /\ state' = SomeState([state.value EXCEPT
                            !.servers[j] = addServedServer(server, device),
                            !.devices[d] = addServedDevice(server, device)])
            /\ ret' = IF addServedOk(server, device)
                      THEN "added" ELSE "add_refused"
            /\ pending' = [idx |-> d, link |-> [NoLink EXCEPT !.id = j]]
            /\ baseState' = state.value
    /\ UNCHANGED <<pc, in, iteration, trial, target, order, T, i, best,
                   current, neighbor, errors, ran>>

\* servers[j].rmvServed(devices[d]); a release of the device just committed
\* to the same server completes a round trip
CapRmv ==
    /\ pc = "cap"
    /\ \E j \in DOMAIN state.value.servers \ {0},
          d \in DOMAIN state.value.devices \ {0} :
        LET server == state.value.servers[j]
            device == state.value.devices[d]
            roundTrip == ret = "added" /\ pending.idx = d /\ pending.link.id = j
        IN  /\ state' = SomeState([state.value EXCEPT
                            !.servers[j] = rmvServedServer(server, device),
                            !.devices[d] = rmvServedDevice(server, device)])
            /\ ret' = IF roundTrip THEN "round_trip"
                      ELSE IF rmvServedOk(server, device) THEN "removed"
                      ELSE "rmv_refused"
            /\ pending' = [idx |-> d, link |-> [NoLink EXCEPT !.id = j]]
            /\ baseState' = IF roundTrip THEN baseState ELSE state.value
    /\ UNCHANGED <<pc, in, iteration, trial, target, order, T, i, best,
                   current, neighbor, errors, ran>>

Next ==
    \/ PreCalculation
    \/ CreateBottleneck
    \/ EmptyListStart
    \/ CapStart
    \/ CapAdd
    \/ CapRmv
    \/ Dispatch
    \/ HeuristicsBootup
    \/ RandomStep
    \/ GreedyStep
    \/ HeuristicFinish
    \/ MetaLoop
    \/ SAStart
    \/ MetaUnknownAlgorithm
    \/ SANeighbor
    \/ SAAccept
    \/ SAFinish
    \/ MetaTrialEnd

Spec == Init /\ [][Next]_vars

\* the runs of simulatedAnnealing from a known initial heuristic
AnnealingInputs ==
    {x \in AllInputs : /\ x.simulation = "MetaHeuristic"
                       /\ x.algorithm = "SA"
                       /\ x.heuristic \in KnownHeuristics}

AnnealingInit == InitWith(AnnealingInputs)

\* the steps of a MetaHeuristic run with algorithm "SA"
AnnealingNext ==
    \/ PreCalculation
    \/ CreateBottleneck
    \/ Dispatch
    \/ HeuristicsBootup
    \/ RandomStep
    \/ GreedyStep
    \/ HeuristicFinish
    \/ MetaLoop
    \/ SAStart
    \/ SANeighbor
    \/ SAAccept
    \/ SAFinish
    \/ MetaTrialEnd

\* the program is single-threaded and synchronous: it goes on taking steps
\* until it stops.  Nothing is assumed of the random draws
FairSpec == AnnealingInit /\ [][AnnealingNext]_vars /\ WF_vars(AnnealingNext)


(***************************************************************************)
(* The properties of the capacity model and of the strategies.             *)
(***************************************************************************)
\* the Results in play: the run state, the copy MetaHeuristics::bootup
\* starts every trial from, and the copy of the running trial
ResultsInPlay == {state.value, baseState, iteration}

\* the device and server vectors in play: those of the Results, and the
\* current, best and neighbor copies of simulatedAnnealing
InPlay ==
    {[devices |-> r.devices, servers |-> r.servers] : r \in ResultsInPlay}
    \cup {[devices |-> sol.devices, servers |-> sol.servers] :
            sol \in {current, best, neighbor}}

\* the sum of one demand field over the devices of a server's served set
Used(devices, server, field) ==
    SumOver(server.supply.devices_served,
            [id \in server.supply.devices_served |-> devices[id][field]])

\* a strategy is working on, or has worked on, the state (the driver of the
\* Server interface makes commitments no strategy would)
InStrategies == pc # "cap"

\* the ids of the candidate list of a device
CandidateIds(device) == {device.servers[k].id : k \in DOMAIN device.servers}

\* C1: capacity invariant.  At every state reached during and after the
\* random strategy, the greedy strategy and simulated annealing, for every
\* server of every solution in play (current and best included) and each of
\* the five dimensions, the sum of the dimension over the devices of the
\* server's served set is at most the server's capacity.
C1_CapacityInvariant ==
    InStrategies =>
        \A sol \in InPlay : \A j \in DOMAIN sol.servers :
            LET server == sol.servers[j] IN
            /\ Used(sol.devices, server, "pcc") <= server.pcc_total
            /\ Used(sol.devices, server, "pcn") <= server.pcn
            /\ Used(sol.devices, server, "mem") <= server.mem
            /\ Used(sol.devices, server, "sto") <= server.sto
            /\ Used(sol.devices, server, "bw") <= server.bw

\* a strategy has finished with a server that serves a device and has no
\* room for another device it is a candidate of
C1_Witness ==
    /\ pc = "done"
    /\ ran # {}
    /\ \E j \in DOMAIN state.value.servers, d \in DOMAIN state.value.devices :
        /\ state.value.servers[j].supply.devices_served # {}
        /\ j \in CandidateIds(state.value.devices[d])
        /\ ~state.value.devices[d].served
        /\ ~canServe(state.value.servers[j], state.value.devices[d])

\* C2: activation invariant.  After every addServed and rmvServed call, in
\* any order and on any server, and at every state of every strategy (its
\* end included), a server's on flag is true if and only if its
\* devices_served set is non-empty.
C2_ActivationInvariant ==
    \A sol \in InPlay : \A j \in DOMAIN sol.servers :
        sol.servers[j].on <=> sol.servers[j].supply.devices_served # {}

\* rmvServed has just emptied a server, which is off again, while another
\* server still serves a device and is on
C2_Witness ==
    /\ pc = "cap"
    /\ ret = "removed"
    /\ state.value.servers[pending.link.id].supply.devices_served = {}
    /\ ~state.value.servers[pending.link.id].on
    /\ baseState.servers[pending.link.id].on
    /\ \E j \in DOMAIN state.value.servers :
        /\ state.value.servers[j].on
        /\ state.value.servers[j].supply.devices_served # {}

\* C3: at most one server.  At every state reached by the random strategy,
\* the greedy strategy and simulated annealing, the middle of a neighbor
\* move included, no device id is in the served set of two servers.
C3_AtMostOneServer ==
    InStrategies =>
        \A sol \in InPlay : \A j1, j2 \in DOMAIN sol.servers :
            j1 # j2 =>
                sol.servers[j1].supply.devices_served
                \cap sol.servers[j2].supply.devices_served = {}

\* the middle of a neighbor move of a served device: it has been released
\* from its old server and is not yet committed to the new one
C3_Witness ==
    /\ pc = "sa_accept"
    /\ pending.idx # 0
    /\ current.devices[pending.idx].served
    /\ pending.idx \in current.servers[current.devices[pending.idx].server.id]
                            .supply.devices_served
    /\ \A j \in DOMAIN neighbor.servers :
        pending.idx \notin neighbor.servers[j].supply.devices_served

\* C4: assignment legality.  During and after any strategy, the id of the
\* committed server link of every served device is the id of one of the
\* entries of the device's candidate list.
C4_AssignmentLegality ==
    InStrategies =>
        \A sol \in InPlay : \A d \in DOMAIN sol.devices :
            sol.devices[d].served =>
                sol.devices[d].server.id \in CandidateIds(sol.devices[d])

\* simulated annealing has returned with a best solution in which a device
\* is served by another server than in the initial solution
C4_Witness ==
    /\ pc = "sa_return"
    /\ \E d \in DOMAIN best.devices :
        /\ best.devices[d].served
        /\ iteration.devices[d].served
        /\ best.devices[d].server.id # iteration.devices[d].server.id


\* C5: when simulatedAnnealing returns, the device and server vectors of
\* the run state it was given are those of the best solution found, and the
\* state's metrics are calculateMetrics of that same best solution.
C5_StateHoldsBest ==
    pc = "sa_return" =>
        /\ iteration.devices = best.devices
        /\ iteration.servers = best.servers
        /\ iteration.metrics =
            calculateMetrics(best.devices, best.servers, iteration.metrics)

\* the locals of simulatedAnnealing exist: from the copies made before the
\* loop to the return
SARunning == pc \in {"sa_inner", "sa_accept", "sa_finish", "sa_return"}

\* the cost of the initial solution of the running simulatedAnnealing call
InitialCost ==
    iteration.metrics.outputs.cost_of_non_service
    + iteration.metrics.outputs.cost_of_servers_used

\* C6: monotonic improvement.  Throughout a simulatedAnnealing run bestCost
\* never increases from one step to the next, whatever the neighbor moves
\* and acceptance decisions; and until the return the best cost is at most
\* the cost of the initial solution.
C6_MonotonicBest ==
    /\ [][SARunning /\ SARunning' => best'.Cost <= best.Cost]_vars
    /\ [](pc \in {"sa_inner", "sa_accept", "sa_finish"} =>
            best.Cost <= InitialCost)

\* the best solution has improved on the initial one, and the current
\* solution has since been moved to a worse one
C6_Witness ==
    /\ pc = "sa_finish"
    /\ best.Cost < InitialCost
    /\ current.Cost > best.Cost

\* C7: round trip.  For any server state and any device not in the server's
\* served set, addServed followed immediately by rmvServed of the same
\* device restores the demand accumulator of the server (cores, processing
\* capacity, memory, storage, bandwidth, cost, served set) and its on flag
\* to their values before the commit, and leaves the device's served flag
\* false.
C7_RoundTrip ==
    pc = "cap" /\ ret = "round_trip" =>
        LET j == pending.link.id
            d == pending.idx
        IN  /\ state.value.servers[j].supply = baseState.servers[j].supply
            /\ state.value.servers[j].on = baseState.servers[j].on
            /\ state.value.servers[j] = baseState.servers[j]
            /\ ~state.value.devices[d].served

\* a round trip on a server that was serving another device, of a device
\* that was served by another server
C7_Witness ==
    /\ pc = "cap"
    /\ ret = "round_trip"
    /\ baseState.servers[pending.link.id].supply.devices_served # {}
    /\ pending.idx \notin
            baseState.servers[pending.link.id].supply.devices_served
    /\ baseState.devices[pending.idx].served

\* the arguments calculateMetrics can be called with: the vectors and the
\* metrics of every Result in play, and the best solution of
\* simulatedAnnealing with the metrics of the state it was given
MetricsCalls ==
    {[devices |-> r.devices, servers |-> r.servers, metrics |-> r.metrics] :
        r \in ResultsInPlay}
    \cup {[devices |-> best.devices, servers |-> best.servers,
           metrics |-> iteration.metrics]}

\* C8: idempotent metrics.  A second calculateMetrics call on the same
\* devices and servers leaves the output counters and costs as the first
\* call left them, and a call never changes cost_of_non_coverage or
\* devices_covered_count.
C8_IdempotentMetrics ==
    \A c \in MetricsCalls :
        LET first == calculateMetrics(c.devices, c.servers, c.metrics)
            second == calculateMetrics(c.devices, c.servers, first)
        IN  /\ second = first
            /\ first.outputs.cost_of_non_coverage =
                    c.metrics.outputs.cost_of_non_coverage
            /\ first.outputs.devices_covered_count =
                    c.metrics.outputs.devices_covered_count

\* a strategy's metrics have been calculated, with served and unserved
\* devices, a server in use and an uncovered device, so that a further
\* call has counters and costs to count twice
C8_Witness ==
    /\ pc = "done"
    /\ ran # {}
    /\ state.value.metrics =
        calculateMetrics(state.value.devices, state.value.servers,
                         state.value.metrics)
    /\ state.value.metrics.outputs.devices_served_count > 0
    /\ state.value.metrics.outputs.cost_of_non_service > 0
    /\ state.value.metrics.outputs.cost_of_servers_used > 0
    /\ state.value.metrics.outputs.cost_of_non_coverage > 0

\* the arguments pre_calculation accepts by the specification
ValidInputs ==
    /\ in.numDevices > 0
    /\ in.numServersEC > 0
    /\ in.numServersCC > 0
    /\ in.techType \in 1 .. 6

\* C9: pre_calculation produces a run state only when the device count, the
\* edge-server count and the cloud-server count are positive and the
\* technology id is one of 1..6; for any other input it fails with a
\* configuration error and no run state is produced.
C9_PreCalculationValidates ==
    pc # "start" =>
        /\ state.has => ValidInputs
        /\ ~ValidInputs => ~state.has /\ errors # {}

\* the name given to Heuristics::bootup, or the algorithm or the initial
\* heuristic given to MetaHeuristics::bootup, is not a known one
UnknownName ==
    \/ in.simulation = "Heuristic" /\ in.algorithm \notin KnownHeuristics
    \/ /\ in.simulation = "MetaHeuristic"
       /\ in.algorithm # "SA" \/ in.heuristic \notin KnownHeuristics

\* C10: unknown strategy name.  When Heuristics::bootup is called with a
\* name other than Random and the four Greedy names, or
\* MetaHeuristics::bootup with an algorithm other than SA or with such an
\* initial-heuristic name, an error is reported, no strategy runs, and the
\* devices and servers of the run state are left unmodified.
C10_UnknownNameRejected ==
    UnknownName /\ state.has =>
        /\ ran = {}
        /\ state = pre_calculation(in.numDevices, in.numServersEC,
                                   in.numServersCC, in.techType, in.dataset)
        /\ pc \in {"done", "crashed"} =>
            errors \cap {"Unknown heuristic algorithm type",
                         "Unknown simulation or algorithm type"} # {}


\* C11: totality of the heuristics.  For every run state pre_calculation
\* returns from valid arguments, the random strategy, the greedy strategy
\* and simulated annealing (called by their known names) complete without
\* raising an error.
C11_StrategiesTotal ==
    ValidInputs /\ ~UnknownName /\ state.has =>
        pc # "crashed" /\ "Falha na simulacao" \notin errors


\* the edge servers of r within the coverage radius of device d
EdgesInRadius(r, d) ==
    {j \in DOMAIN r.servers \ {0} :
        /\ r.servers[j].type = "E"
        /\ calculateDistance(r.devices[d], r.servers[j])
            <= techParams(r.metrics.inputs.tech).radius}

\* the cloud servers of r
Clouds(r) == {j \in DOMAIN r.servers \ {0} : r.servers[j].type = "C"}

\* C12: coverage rule.  After findCovering a device is covered if and only
\* if an edge server lies at a distance of at most the coverage radius; the
\* candidate list of a covered device is exactly the edge servers within the
\* radius and every cloud server, each once; an uncovered device has an
\* empty candidate list and is absent from the covered list; and the
\* non-coverage cost is the sum of the non-service cost of the uncovered
\* devices, each counted once.
C12_CoverageRule ==
    pc = "dispatch" /\ ~in.bottlenecks /\ ~coverageError(in.techType) =>
        LET r == state.value
            ids == DOMAIN r.devices \ {0}
        IN  /\ \A d \in ids :
                LET device == r.devices[d] IN
                /\ device.covered <=> EdgesInRadius(r, d) # {}
                /\ device.covered =>
                    /\ CandidateIds(device) = EdgesInRadius(r, d) \cup Clouds(r)
                    /\ Len(device.servers) =
                        Cardinality(EdgesInRadius(r, d) \cup Clouds(r))
                /\ ~device.covered => device.servers = <<>>
                /\ device.covered <=> device.id \in Range(r.coveredDevicesIdx)
            /\ r.metrics.outputs.cost_of_non_coverage =
                SumOver({d \in ids : ~r.devices[d].covered},
                        [d \in ids |-> r.devices[d].cnd])

\* findCovering has run with an edge server at exactly the radius of a
\* covered device, and with a device out of the range of every edge server
C12_Witness ==
    /\ pc = "dispatch"
    /\ ~coverageError(in.techType)
    /\ \E d \in DOMAIN state.value.devices \ {0}, j \in DOMAIN state.value.servers :
        /\ state.value.servers[j].type = "E"
        /\ calculateDistance(state.value.devices[d], state.value.servers[j])
            = techParams(in.techType).radius
        /\ state.value.devices[d].covered
    /\ \E d \in DOMAIN state.value.devices \ {0} :
        /\ ~state.value.devices[d].covered
        /\ state.value.metrics.outputs.cost_of_non_coverage > 0


\* the assignment of devices to servers in r: the id of the server a served
\* device is committed to, 0 for a device that is not served
Assignment(r) ==
    [d \in DOMAIN r.devices |->
        IF r.devices[d].served THEN r.devices[d].server.id ELSE 0]

\* the assignments one iteration of greedyHeuristic can end in
GreedyOutcomes ==
    {Assignment(greedyBody(TargetResult, Head(order), sorted)) :
        sorted \in sortedServers(TargetResult.devices[Head(order)].servers,
                                 sortServersAsc(HeuristicName))}

EmptyListed(r) ==
    {d \in DOMAIN r.devices \ {0} :
        r.devices[d].covered /\ r.devices[d].servers = <<>>}

\* C14: random-reject.  A covered device whose candidate list is empty is
\* unserved throughout the random strategy and after it, for every shuffle
\* order and every draw, and once the strategy has completed its
\* non-service cost is part of the cost_of_non_service of the metrics: the
\* sum of the non-service cost of the covered unserved devices.
C14_RandomReject ==
    "randomHeuristic" \in ran =>
        \A r \in ResultsInPlay : \A d \in EmptyListed(r) :
            /\ ~r.devices[d].served
            /\ \A j \in DOMAIN r.servers :
                d \notin r.servers[j].supply.devices_served
            /\ pc = "done" /\ r = state.value =>
                /\ r.metrics.outputs.cost_of_non_service =
                    SumOver({e \in DOMAIN r.devices \ {0} :
                                r.devices[e].covered /\ ~r.devices[e].served},
                            [e \in DOMAIN r.devices |-> r.devices[e].cnd])
                /\ r.metrics.outputs.cost_of_non_service >= r.devices[d].cnd

\* the random strategy has completed on a state with a covered device of
\* empty candidate list, and has served another device
C14_Witness ==
    /\ pc = "done"
    /\ "randomHeuristic" \in ran
    /\ EmptyListed(state.value) # {}
    /\ \E e \in DOMAIN state.value.devices : state.value.devices[e].served
    /\ state.value.metrics.outputs.cost_of_non_service > 0


\* C15: metrics formula.  After calculateMetrics, total_cost is
\* cost_of_non_coverage + cost_of_non_service + cost_of_servers_used;
\* cost_of_servers_used is the sum of the activation cost of the servers
\* whose on flag is set; cost_of_non_service is the sum of the non-service
\* cost of the devices that are covered and not served; devices_served_count
\* is the edge-served count plus the cloud-served count; and
\* servers_used_count is the edge-used count plus the cloud-used count.
C15_MetricsFormula ==
    \A c \in MetricsCalls :
        LET out == calculateMetrics(c.devices, c.servers, c.metrics).outputs
            on == {j \in DOMAIN c.servers : c.servers[j].on}
            waiting == {d \in DOMAIN c.devices :
                            c.devices[d].covered /\ ~c.devices[d].served}
        IN  /\ out.total_cost =
                c.metrics.outputs.cost_of_non_coverage
                + out.cost_of_non_service + out.cost_of_servers_used
            /\ out.cost_of_servers_used =
                SumOver(on, [j \in on |-> c.servers[j].csc])
            /\ out.cost_of_non_service =
                SumOver(waiting, [d \in waiting |-> c.devices[d].cnd])
            /\ out.devices_served_count =
                out.devices_served_ec_count + out.devices_served_cc_count
            /\ out.servers_used_count =
                out.servers_used_ec_count + out.servers_used_cc_count

\* the random strategy has returned metrics with every term of the total:
\* an uncovered device, a covered device left unserved, and a device served
\* by a cloud server
C15_Witness ==
    /\ pc = "done"
    /\ ran = {"randomHeuristic"}
    /\ state.value.metrics.outputs.cost_of_non_coverage > 0
    /\ state.value.metrics.outputs.cost_of_non_service > 0
    /\ state.value.metrics.outputs.devices_served_cc_count > 0
    /\ state.value.metrics.outputs.servers_used_cc_count > 0
    /\ state.value.metrics.outputs.total_cost =
        state.value.metrics.outputs.cost_of_non_coverage
        + state.value.metrics.outputs.cost_of_non_service
        + state.value.metrics.outputs.cost_of_servers_used


\* MetaHeuristics::bootup is in its trial loop, or in a call it makes from
\* the loop
InTrials ==
    /\ in.simulation = "MetaHeuristic"
    /\ \/ pc \in {"meta_loop", "meta_sa", "sa_inner", "sa_accept",
                  "sa_finish", "sa_return"}
       \/ pc \in {"h_bootup", "random", "greedy"} /\ target = "iteration"

\* C16: MetaHeuristics::bootup never modifies the run state it is given,
\* and every trial starts from an identical copy of the same base state: the
\* base state does not change once the trials have begun, and the Result of
\* a trial is equal to it when the trial starts, whatever the trials before
\* have committed, released or written to their metrics.
C16_TrialsFromSameBase ==
    /\ [][in.simulation = "MetaHeuristic" /\ pc \notin {"start", "bottleneck"}
            => state' = state]_vars
    /\ [][InTrials => baseState' = baseState]_vars
    /\ [][pc = "meta_loop" /\ pc' # "done" => iteration' = baseState']_vars

\* a second trial starts from the base state, which is still the run state
\* pre_calculation returned, after a first trial in which the random
\* strategy and simulated annealing have run
C16_Witness ==
    /\ pc = "h_bootup"
    /\ target = "iteration"
    /\ trial >= 1
    /\ {"randomHeuristic", "simulatedAnnealing"} \subseteq ran
    /\ iteration = baseState
    /\ baseState = state.value
    /\ state.value.coveredDevicesIdx # <<>>


\* the Result pre_calculation returned for the arguments of the run (the
\* run state the strategies are given when the bottleneck hook is off)
PreCalculated ==
    pre_calculation(in.numDevices, in.numServersEC, in.numServersCC,
                    in.techType, in.dataset).value

\* the solutions in play that have been constructed
Constructed == {sol \in InPlay : DOMAIN sol.devices # {}}

\* C17: candidate-list immutability.  After pre-calculation no strategy
\* changes the candidate list of a device (its entries, their order, their
\* distance, timing and routing fields); the only fields the strategies
\* change are the served flag and the committed link of a device and the on
\* flag and the demand accumulator of a server.
C17_CandidateListsImmutable ==
    in.simulation \in {"Heuristic", "MetaHeuristic"} /\ ~in.bottlenecks
        /\ state.has =>
        \A sol \in Constructed :
            /\ \A d \in DOMAIN sol.devices :
                /\ sol.devices[d].servers = PreCalculated.devices[d].servers
                /\ [sol.devices[d] EXCEPT !.served = FALSE, !.server = NoLink]
                    = [PreCalculated.devices[d] EXCEPT
                            !.served = FALSE, !.server = NoLink]
            /\ \A j \in DOMAIN sol.servers :
                [sol.servers[j] EXCEPT !.on = FALSE, !.supply = EmptySupply]
                = PreCalculated.servers[j]


\* the last call of the driver of the Server interface: the server and the
\* device before and after it
CallServerBefore == baseState.servers[pending.link.id]
CallServerAfter == state.value.servers[pending.link.id]
CallDeviceBefore == baseState.devices[pending.idx]
CallDeviceAfter == state.value.devices[pending.idx]

\* addServed has returned true: the server is active, the device is marked
\* served, every accumulator field has grown by the demand of the device and
\* the id of the device has joined the served set
CommitEffects ==
    /\ CallDeviceBefore.id \notin CallServerBefore.supply.devices_served
    /\ CallServerAfter.on
    /\ CallDeviceAfter.served
    /\ CallServerAfter.supply.devices_served =
        CallServerBefore.supply.devices_served \cup {CallDeviceBefore.id}
    /\ CallServerAfter.supply.cndD =
        CallServerBefore.supply.cndD + CallDeviceBefore.cnd
    /\ CallServerAfter.supply.pccD =
        CallServerBefore.supply.pccD + CallDeviceBefore.pcc
    /\ CallServerAfter.supply.pcnD =
        CallServerBefore.supply.pcnD + CallDeviceBefore.pcn
    /\ CallServerAfter.supply.memD =
        CallServerBefore.supply.memD + CallDeviceBefore.mem
    /\ CallServerAfter.supply.stoD =
        CallServerBefore.supply.stoD + CallDeviceBefore.sto
    /\ CallServerAfter.supply.bwD =
        CallServerBefore.supply.bwD + CallDeviceBefore.bw

\* C18 as stated: commit postcondition.  When addServed is called with a
\* device whose id is not in the served set of the server it returns true,
\* and afterwards the server is active, the device is marked served, every
\* accumulator field has grown by the demand of the device, the id is in
\* the served set, and the committed link of the device refers to this
\* server.
C18_CommitLinksDevice ==
    pc = "cap" /\ ret \in {"added", "add_refused"} =>
        /\ ret = "added" <=>
            CallDeviceBefore.id \notin CallServerBefore.supply.devices_served
        /\ ret = "added" =>
            CommitEffects /\ CallDeviceAfter.server.id = CallServerAfter.id

\* C18, amended: commit postcondition.  addServed called with a device whose
\* id is not in the served set returns true and has every effect stated but
\* the last: it leaves the committed link of the device as it was.  The link
\* is assigned by the strategies, in the statement after the call, so that
\* in every solution of a strategy the link of a served device refers to
\* the server whose served set holds the device.
C18_CommitPostcondition ==
    /\ pc = "cap" /\ ret \in {"added", "add_refused"} =>
        /\ ret = "added" <=>
            CallDeviceBefore.id \notin CallServerBefore.supply.devices_served
        /\ ret = "added" =>
            CommitEffects /\ CallDeviceAfter.server = CallDeviceBefore.server
    /\ InStrategies =>
        \A sol \in InPlay : \A d \in DOMAIN sol.devices :
            sol.devices[d].served =>
                sol.devices[d].id \in
                    sol.servers[sol.devices[d].server.id].supply.devices_served

\* addServed has returned true on a server that was already serving another
\* device
C18_Witness ==
    /\ pc = "cap"
    /\ ret = "added"
    /\ CallServerBefore.supply.devices_served # {}
    /\ CallDeviceAfter.served
    /\ CallDeviceAfter.server.id # CallServerAfter.id


\* C19: commit idempotence guard.  addServed called with a device whose id
\* is already in the served set of the server returns false (and only then)
\* and leaves the accumulator, the served set and the on flag of the server
\* and the fields of the device unchanged, so that a repeated commit never
\* counts the demand of the device twice.
C19_CommitGuard ==
    pc = "cap" /\ ret \in {"added", "add_refused"} =>
        /\ ret = "add_refused" <=>
            CallDeviceBefore.id \in CallServerBefore.supply.devices_served
        /\ ret = "add_refused" =>
            /\ CallServerAfter.supply = CallServerBefore.supply
            /\ CallServerAfter.on = CallServerBefore.on
            /\ CallServerAfter = CallServerBefore
            /\ CallDeviceAfter = CallDeviceBefore
            /\ state.value = baseState

\* addServed has been refused on a server that serves the device and one
\* more
C19_Witness ==
    /\ pc = "cap"
    /\ ret = "add_refused"
    /\ CallDeviceBefore.id \in CallServerBefore.supply.devices_served
    /\ Cardinality(CallServerBefore.supply.devices_served) >= 2
    /\ CallServerAfter.supply.memD > CallDeviceBefore.mem


\* C20: release.  rmvServed called with a device whose id is not in the
\* served set of the server returns false and changes nothing (accumulator,
\* served set and on flag of the server, served flag of the device); called
\* with a device in the served set it returns true, subtracts exactly the
\* demand of the device, clears the served flag of the device, and clears on
\* exactly when the served set has become empty.
C20_Release ==
    pc = "cap" /\ ret \in {"removed", "rmv_refused"} =>
        /\ ret = "removed" <=>
            CallDeviceBefore.id \in CallServerBefore.supply.devices_served
        /\ ret = "rmv_refused" => state.value = baseState
        /\ ret = "removed" =>
            /\ CallServerAfter.supply.devices_served =
                CallServerBefore.supply.devices_served \ {CallDeviceBefore.id}
            /\ CallServerAfter.supply.cndD =
                CallServerBefore.supply.cndD - CallDeviceBefore.cnd
            /\ CallServerAfter.supply.pccD =
                CallServerBefore.supply.pccD - CallDeviceBefore.pcc
            /\ CallServerAfter.supply.pcnD =
                CallServerBefore.supply.pcnD - CallDeviceBefore.pcn
            /\ CallServerAfter.supply.memD =
                CallServerBefore.supply.memD - CallDeviceBefore.mem
            /\ CallServerAfter.supply.stoD =
                CallServerBefore.supply.stoD - CallDeviceBefore.sto
            /\ CallServerAfter.supply.bwD =
                CallServerBefore.supply.bwD - CallDeviceBefore.bw
            /\ ~CallDeviceAfter.served
            /\ CallServerAfter.on =
                IF CallServerAfter.supply.devices_served = {} THEN FALSE
                ELSE CallServerBefore.on

\* rmvServed has released one of the two devices of a server, which is
\* still on
C20_Witness ==
    /\ pc = "cap"
    /\ ret = "removed"
    /\ Cardinality(CallServerBefore.supply.devices_served) = 2
    /\ Cardinality(CallServerAfter.supply.devices_served) = 1
    /\ CallServerAfter.on
    /\ ~CallDeviceAfter.served


\* the entities a loader parsed: the entries of its vector but the
\* placeholder
Usable(vec) == {k \in DOMAIN vec : vec[k].id # 0}

\* the devices and servers the loaders return for the arguments of the run
LoadedDevices == loadDevices(in.numDevices, in.dataset)
LoadedServers == loadServers(in.numServersEC, in.numServersCC, in.dataset)

\* C21: data errors.  Malformed device or server records are skipped
\* without aborting: with positive counts, pre_calculation produces a run
\* state when usable devices and usable servers are left; when loading
\* leaves zero usable devices or zero usable servers (every record is
\* malformed, say) pre_calculation fails and produces no run state.
C21_DataErrors ==
    pc # "start" /\ in.numDevices > 0 /\ in.numServersEC > 0
        /\ in.numServersCC > 0 =>
        /\ Usable(LoadedDevices) # {} /\ Usable(LoadedServers) # {} =>
                state.has
        /\ Usable(LoadedDevices) = {} \/ Usable(LoadedServers) = {} =>
                ~state.has


\* C23: ordering in initializeSimulation.  The bottleneck hook and every
\* strategy run only after pre_calculation has produced a run state; when
\* pre_calculation returns no state, neither the hook nor a strategy has
\* run, and no run state is read or modified.
C23_OnlyAfterPreCalculation ==
    /\ ran # {} => state.has
    /\ pc # "start" /\ ~state.has =>
        /\ ran = {}
        /\ pc # "segfault"
        /\ state = NoState


\* simulatedAnnealing is in its outer loop
InOuterLoop == pc \in {"sa_inner", "sa_accept"}

\* simulatedAnnealing has left its outer loop, by the loop test or by the
\* exception of randomNumber
OuterLoopLeft == pc \in {"sa_finish", "crashed"}

\* line 115: a neighbor of higher cost is accepted as the current solution
AcceptWorse == pc = "sa_accept" /\ current'.Cost > current.Cost

\* C22 as stated: termination of simulated annealing.  For every initial
\* solution, initial temperature and cooling factor, and for every sequence
\* of random choices, simulatedAnnealing eventually exits its outer loop;
\* the inner loop, whose counter is reset on each improving move, cannot run
\* forever at one temperature.
C22_AlwaysExits == InOuterLoop ~> OuterLoopLeft

\* C22, amended: simulatedAnnealing exits its outer loop for every sequence
\* of random choices in which moves of higher cost are accepted finitely
\* often (each improving move strictly lowers the current cost, so a streak
\* of them is finite, and ten attempts in a row without one cool the
\* temperature); a sequence that for ever alternates an accepted move of
\* higher cost and the improving move back keeps the inner loop at one
\* temperature.
C22_ExitsUnlessWorseForever ==
    <>[][~AcceptWorse]_vars => (InOuterLoop ~> OuterLoopLeft)

\* the outer loop has been left by its test, the temperature having been
\* cooled to the threshold, after improving moves had reset the counter
C22_Witness ==
    /\ pc = "sa_finish"
    /\ in.T > MinTemp
    /\ T <= MinTemp
    /\ best.Cost < InitialCost


\* the aggregator's costs of a solution: calculateMetrics on its devices and
\* servers, with the metrics of the state simulatedAnnealing was given
Aggregated(sol) ==
    calculateMetrics(sol.devices, sol.servers, iteration.metrics).outputs

\* cns and csu of the solution are the aggregator's
CostsAgree(sol) ==
    /\ sol.CNS = Aggregated(sol).cost_of_non_service
    /\ sol.CSU = Aggregated(sol).cost_of_servers_used

\* the metrics simulatedAnnealing was given are the aggregator's of the
\* devices and servers it was given
StartedFromAggregator ==
    iteration.metrics.outputs = Aggregated(iteration)

\* generateNeighbor has returned: the neighbor with its move committed
NeighborReturned == commitNew(neighbor, pending)

\* C24: incremental cost bookkeeping.  If cns and csu are the aggregator's
\* non-service and servers-used cost of a solution before a
\* generateNeighbor call, they are those of the modified solution after it;
\* hence, when simulated annealing starts from a state whose metrics the
\* aggregator computed, currentCost and bestCost are at every step the
\* recomputed cost of the current and of the best solution.
C24_IncrementalCosts ==
    /\ pc = "sa_accept" /\ CostsAgree(current) => CostsAgree(NeighborReturned)
    /\ pc \in {"sa_inner", "sa_accept", "sa_finish"} /\ StartedFromAggregator
        => \A sol \in {current, best} :
                /\ CostsAgree(sol)
                /\ sol.Cost = Aggregated(sol).cost_of_non_service
                              + Aggregated(sol).cost_of_servers_used

\* generateNeighbor moves a served device from a server it leaves switched
\* off to a server it switches on, in a run whose initial metrics are the
\* aggregator's and whose current solution is no longer the initial one
C24_Witness ==
    /\ pc = "sa_accept"
    /\ StartedFromAggregator
    /\ pending.idx # 0
    /\ current.devices[pending.idx].served
    /\ ~current.servers[pending.link.id].on
    /\ ~neighbor.servers[current.devices[pending.idx].server.id].on
    /\ current.devices # iteration.devices
    /\ current.Cost > 0


\* the candidates one generateNeighbor call examines: the positions in
\* device.servers of the first MaxTries entries of serversShuffled
Examined(serversShuffled) ==
    {serversShuffled[n] + 1 :
        n \in {m \in DOMAIN serversShuffled : m <= MaxTries}}

\* the candidate at position c of the list is a server other than the
\* device's current one that canServe the device
MoveTarget(sol, device, c) ==
    /\ device.servers[c].id # device.server.id
    /\ canServe(sol.servers[device.servers[c].id], device)

\* C25: neighbor step.  One generateNeighbor call examines at most 5
\* entries of the shuffled candidate list of one covered device.  If none
\* of them is a server other than the device's current one that canServe
\* it, devices, servers, cns and csu are left unchanged; otherwise exactly
\* one device changes its committed server, to a different server that was
\* among the examined ones, and only that device, its old server and its
\* new server are modified.
C25_NeighborStep ==
    /\ pc = "sa_accept" =>
        \E d_idx \in Range(iteration.coveredDevicesIdx) :
            \E serversShuffled \in
                    shuffledRange(0, Len(current.devices[d_idx].servers) - 1) :
                NeighborReturned =
                    generateNeighbor(CopyOf(current), d_idx, serversShuffled)
    /\ pc = "sa_inner" =>
        \A d_idx \in Range(iteration.coveredDevicesIdx) :
            LET device == current.devices[d_idx] IN
            \A serversShuffled \in shuffledRange(0, Len(device.servers) - 1) :
                LET sol == CopyOf(current)
                    after == generateNeighbor(sol, d_idx, serversShuffled)
                    tried == Examined(serversShuffled)
                    old == device.server.id
                    new == after.devices[d_idx].server.id
                IN  /\ Cardinality(tried) <= MaxTries
                    /\ (\A c \in tried : ~MoveTarget(sol, device, c))
                        => after = sol
                    /\ (\E c \in tried : MoveTarget(sol, device, c)) =>
                        /\ new # old
                        /\ \E c \in tried :
                            /\ MoveTarget(sol, device, c)
                            /\ after.devices[d_idx].server = device.servers[c]
                        /\ after.devices[d_idx].served
                        /\ d_idx \in after.servers[new].supply.devices_served
                        /\ \A e \in DOMAIN sol.devices \ {d_idx} :
                            after.devices[e] = sol.devices[e]
                        /\ \A j \in DOMAIN sol.servers \ {old, new} :
                            after.servers[j] = sol.servers[j]
                        /\ [after.devices[d_idx] EXCEPT
                                !.server = NoLink, !.served = FALSE]
                            = [device EXCEPT !.server = NoLink,
                                             !.served = FALSE]

\* a generateNeighbor call is about to be made for a device with more than
\* 5 candidates of which one alone can take it: with that one last in the
\* shuffled list the call is a no-op, with it among the first 5 it is a move
C25_Witness ==
    /\ pc = "sa_inner"
    /\ \E d_idx \in Range(iteration.coveredDevicesIdx) :
        LET device == current.devices[d_idx] IN
        /\ Len(device.servers) > MaxTries
        /\ \E c \in DOMAIN device.servers :
                MoveTarget(CopyOf(current), device, c)
        /\ \E serversShuffled \in shuffledRange(0, Len(device.servers) - 1) :
                generateNeighbor(CopyOf(current), d_idx, serversShuffled)
                    = CopyOf(current)
        /\ \E serversShuffled \in shuffledRange(0, Len(device.servers) - 1) :
                generateNeighbor(CopyOf(current), d_idx, serversShuffled)
                    # CopyOf(current)


\* line 99: the neighbor is of lower cost than the current solution, and is
\* accepted
AcceptImproving == pc = "sa_accept" /\ current'.Cost < current.Cost

\* the neighbor attempts the inner loop has still to make at the present
\* temperature when its test i < 10 is next evaluated
AttemptsLeft == InnerLoop - i

\* C26: cooling schedule.  At each temperature level the inner loop makes
\* up to 10 neighbor attempts; an accepted improving move resets the inner
\* counter so that a full 10 further attempts are made at the same
\* temperature before it is cooled; the temperature is multiplied by alpha
\* only after 10 consecutive attempts without an accepted improving move.
C26_CoolingSchedule ==
    /\ [][pc = "sa_accept" /\ pc' = "sa_inner" /\ T' # T
            => AttemptsLeft' = InnerLoop]_vars
    /\ [][AcceptImproving => T' = T /\ AttemptsLeft' = InnerLoop]_vars
    /\ [][pc = "sa_accept" /\ T' # T /\ pc' # "meta_loop"
            => ~AcceptImproving /\ i = InnerLoop - 1
               /\ T' = cool(T, in.alphaPct)]_vars


\* the Results greedyHeuristic has completed on: the run state of a
\* Heuristic run, the base state of a MetaHeuristic run
GreedyCompleted ==
    IF "greedyHeuristic" \notin ran \/ pc \in {"h_bootup", "greedy"} THEN {}
    ELSE IF in.simulation = "Heuristic" THEN {state.value}
    ELSE {baseState}

\* the candidates of device d of r whose server canServe it
Feasible(r, d) ==
    {k \in DOMAIN r.devices[d].servers :
        canServe(r.servers[r.devices[d].servers[k].id], r.devices[d])}

\* C27: greedy selection.  The greedy strategy processes each covered
\* device once and commits it to the first entry of its candidate list,
\* sorted by response time, whose server canServe it; a covered device is
\* left unserved only if no candidate could serve it, so that when greedy
\* completes no unserved covered device has a candidate server for which
\* canServe is true.
C27_GreedySelection ==
    /\ pc = "greedy" =>
        /\ \A k, l \in DOMAIN order : k # l => order[k] # order[l]
        /\ \A k \in DOMAIN order : ~TargetResult.devices[order[k]].served
        /\ \A d \in Range(TargetResult.coveredDevicesIdx) \ Range(order) :
            ~TargetResult.devices[d].served => Feasible(TargetResult, d) = {}
    /\ pc = "greedy" /\ order # <<>> =>
        LET d == Head(order)
            r == TargetResult
        IN  \A sorted \in sortedServers(r.devices[d].servers,
                                        sortServersAsc(HeuristicName)) :
                LET after == greedyBody(r, d, sorted)
                    can == {k \in DOMAIN sorted :
                                canServe(r.servers[sorted[k].id], r.devices[d])}
                IN  /\ after.devices[d].servers = sorted
                    /\ can = {} => ~after.devices[d].served
                                   /\ after.servers = r.servers
                    /\ can # {} =>
                        \E k \in can :
                            /\ \A m \in can : k <= m
                            /\ after.devices[d].served
                            /\ after.devices[d].server = sorted[k]
                            /\ d \in after.servers[sorted[k].id]
                                        .supply.devices_served
    /\ \A r \in GreedyCompleted :
        \A d \in Range(r.coveredDevicesIdx) :
            ~r.devices[d].served => Feasible(r, d) = {}

\* greedy has completed with a covered device left unserved and with a
\* device committed to an entry of its sorted list that is not the first
C27_Witness ==
    \E r \in GreedyCompleted :
        /\ \E d \in Range(r.coveredDevicesIdx) :
            ~r.devices[d].served /\ r.devices[d].servers # <<>>
        /\ \E d \in Range(r.coveredDevicesIdx) :
            /\ r.devices[d].served
            /\ r.devices[d].server # r.devices[d].servers[1]

(***************************************************************************)
(* C28: the acceptance rule of simulatedAnnealing.                         *)
(***************************************************************************)
\* the neighbor generateNeighbor hands back to the acceptance test, with
\* neighborCost
NeighborCosted == WithCost(NeighborReturned)

\* C28: acceptance rule.  A neighbor whose total cost is strictly lower than
\* the current cost is always accepted as the new current solution; the best
\* solution is replaced only by an accepted neighbor whose cost is strictly
\* lower than bestCost; a neighbor accepted with delta >= 0 never changes the
\* best solution; and bestCost <= currentCost holds at every step of the run.
C28_AcceptanceRule ==
    /\ [][pc = "sa_accept" /\ NeighborCosted.Cost < current.Cost
            => current' = NeighborCosted]_vars
    /\ [][SARunning /\ SARunning' /\ best' # best
            => /\ pc = "sa_accept"
               /\ current' = NeighborCosted
               /\ best' = NeighborCosted
               /\ NeighborCosted.Cost < best.Cost]_vars
    /\ [][pc = "sa_accept" /\ NeighborCosted.Cost >= current.Cost
            => best' = best]_vars
    /\ [](SARunning => best.Cost <= current.Cost)

\* the acceptance test is about to accept an improving neighbor that does
\* not beat the best solution, the current solution having been worsened
\* before
C28_Witness ==
    /\ pc = "sa_accept"
    /\ NeighborCosted.Cost < current.Cost
    /\ NeighborCosted.Cost >= best.Cost
    /\ best.Cost < current.Cost

(***************************************************************************)
(* C29: simulated annealing never takes a device out of service.           *)
(***************************************************************************)
\* the indices of the devices a solution serves
ServedIn(sol) == {d \in DOMAIN sol.devices : sol.devices[d].served}

\* the devices two solutions do not hold alike
Moved(a, b) == {d \in DOMAIN a.devices : a.devices[d] # b.devices[d]}

\* a step of the run that starts and ends inside simulatedAnnealing
RunStep == SARunning /\ SARunning'

Finished ==
    (IF ran \cap {"randomHeuristic", "greedyHeuristic"} = {}
        \/ pc \in {"h_bootup", "random", "greedy"}
     THEN {}
     ELSE {[devices |-> r.devices, servers |-> r.servers] :
            r \in IF in.simulation = "MetaHeuristic" THEN {baseState}
                  ELSE {state.value}})
    \cup (IF pc \in {"sa_finish", "sa_return"}
          THEN {[devices |-> sol.devices, servers |-> sol.servers] :
                    sol \in {current, best}}
          ELSE {})

\* the served flag of device d says whether the server its link names
\* holds its id, and no other server holds it
FlagAgrees(sol, d) ==
    LET device == sol.devices[d] IN
    /\ device.served
        <=> /\ device.server.id \in DOMAIN sol.servers
            /\ device.id \in
                sol.servers[device.server.id].supply.devices_served
    /\ \A j \in DOMAIN sol.servers :
            j # device.server.id
                => device.id \notin sol.servers[j].supply.devices_served

\* the accumulators of a server are the sums over its served set
SupplyAgrees(sol, j) ==
    LET server == sol.servers[j] IN
    /\ server.supply.devices_served \subseteq DOMAIN sol.devices
    /\ server.supply.cndD = Used(sol.devices, server, "cnd")
    /\ server.supply.pccD = Used(sol.devices, server, "pcc")
    /\ server.supply.pcnD = Used(sol.devices, server, "pcn")
    /\ server.supply.memD = Used(sol.devices, server, "mem")
    /\ server.supply.stoD = Used(sol.devices, server, "sto")
    /\ server.supply.bwD = Used(sol.devices, server, "bw")

Consistent(sol) ==
    /\ \A d \in DOMAIN sol.devices : FlagAgrees(sol, d)
    /\ \A j \in DOMAIN sol.servers : SupplyAgrees(sol, j)

\* C30: device/server consistency.  At the end of every strategy (random,
\* greedy, simulated annealing's current and best solutions), a device's
\* served flag is true if and only if its id is in the served set of the
\* server named by its committed link (device.server.id), its id is in no
\* other server's served set, and every accumulator field of each server
\* equals the sum of the corresponding demand over the devices in its
\* served set.  (Checked for every solution in play at every state of the
\* strategies, the ends included.)
C30_Consistency ==
    InStrategies =>
        /\ \A sol \in Finished : Consistent(sol)
        /\ \A sol \in InPlay : Consistent(sol)

\* simulated annealing has ended with a best solution that serves devices
\* from two servers and differs from the current one
C30_Witness ==
    /\ pc = "sa_finish"
    /\ best.devices # current.devices
    /\ \E j1, j2 \in DOMAIN best.servers :
        /\ j1 # j2
        /\ best.servers[j1].supply.devices_served # {}
        /\ best.servers[j2].supply.devices_served # {}
    /\ Finished = {[devices |-> sol.devices, servers |-> sol.servers] :
                        sol \in {current, best}}
                  \cup {[devices |-> baseState.devices,
                         servers |-> baseState.servers]}
====
